---- MODULE Spec2Model ----
(***************************************************************************)
(* TinyHTML: the line-oriented recursive-descent parser (TinyHTMLParser)   *)
(* and the HTML generator (HTMLGenerator).                                 *)
(*                                                                         *)
(* Text is a sequence of one-character strings, so that the scanners of    *)
(* the source work position by position as the code does.  Positions are   *)
(* zero-based, as in the source: the character at position p of s is       *)
(* s[p + 1].                                                               *)
(***************************************************************************)
EXTENDS Integers, Sequences, FiniteSets, TLC

VARIABLES
    source,            \* the argument of new TinyHTMLParser(...)
    input,             \* TinyHTMLParser.input (trimmed by the constructor)
    inputTail,         \* the run of one character that ends this.input, where the text
                       \* is too long to write out (count 0 in every other text)
    position,          \* TinyHTMLParser.position
    parserState,       \* "new" (before the constructor) | "InvalidInput" | "InputTooLarge"
                       \* (the constructor threw) | "constructed" | "parsing" (in the
                       \* loop of parse, where its turns are followed) | "parsed" |
                       \* "failed" (parse threw) | "disposed" (dispose() called, no
                       \* parse() since)
    ast,               \* the forest the last parse() returned
    parserDisposed,    \* TinyHTMLParser.disposed
    options,           \* HTMLGenerator.options (minify, usePrettier, indentSize, indentType)
    indentLevel,       \* HTMLGenerator.indentLevel
    currentParentTag,  \* HTMLGenerator.currentParentTag
    outputBuffer,      \* HTMLGenerator.outputBuffer, joined
    disposed,          \* HTMLGenerator.disposed
    genState,          \* "idle" | "formatting" (generate suspended on the formatter) |
                       \* "returned" | "GeneratorDisposed" (generate threw)
    genArgs,           \* the options argument of the last generate call, where calls are recorded
    html,              \* the local html of generate: its return value once genState = "returned"
    returned,          \* the results of the generate calls, where calls are recorded
    directory,         \* the compileDirectory call in progress, and its files
    activeOperations,  \* TinyHTMLCompiler.activeOperations
    compilerDisposed,  \* TinyHTMLCompiler.disposed
    calls,             \* the compile calls of the callers followed one by one: where
                       \* each call is, its input and its local html
    crowd,             \* the other compile calls in progress, all on the same input,
                       \* counted by where they are
    cache,             \* an LRUCache: capacity, ttl, the Map in insertion order, accessOrder
    now,               \* Date.now()
    observed,          \* the last call on the cache: its name, key and return value
    recency,           \* the stored keys, from the least to the most recently used by a
                       \* successful get or set
    fileCalls,         \* the compileFile calls of the callers, all on one path: where
                       \* each call is, its stats.mtimeMs and its local html
    disk               \* the file of that path (content, mtime) and the output file

vars == <<source, input, inputTail, position, parserState, ast, parserDisposed, options, indentLevel,
          currentParentTag, outputBuffer, disposed, genState, genArgs, html, returned,
          directory, activeOperations, compilerDisposed, calls, crowd,
          cache, now, observed, recency, fileCalls, disk>>

parserVars == <<source, input, inputTail, position, parserState, ast, parserDisposed>>
generatorVars == <<options, indentLevel, currentParentTag, outputBuffer, disposed,
                   genState, genArgs, html, returned>>
compilerVars == <<activeOperations, compilerDisposed, calls, crowd>>
cacheVars == <<cache, now, observed, recency>>
fileVars == <<fileCalls, disk>>

(***************************************************************************)
(* Characters and the JavaScript string primitives the source uses.        *)
(***************************************************************************)
LowerLetters == <<"a","b","c","d","e","f","g","h","i","j","k","l","m",
                  "n","o","p","q","r","s","t","u","v","w","x","y","z">>
UpperLetters == <<"A","B","C","D","E","F","G","H","I","J","K","L","M",
                  "N","O","P","Q","R","S","T","U","V","W","X","Y","Z">>
Range(f) == { f[i] : i \in DOMAIN f }
Letters == Range(LowerLetters) \cup Range(UpperLetters)
Digits == {"0","1","2","3","4","5","6","7","8","9"}

\* /[a-zA-Z0-9_-]/
IdentChars == Letters \cup Digits \cup {"_", "-"}
\* /[ \t]/
SpaceTab == {" ", "\t"}
\* the white space String.prototype.trim and the regular expression class \s remove
WhiteSpace == {" ", "\t", "\n", "\r"}

\* s[i] || ''
CharAt(s, i) == IF i >= 0 /\ i < Len(s) THEN s[i + 1] ELSE ""
\* s.slice(a, b) for 0 <= a, b <= s.length
Slice(s, a, b) == SubSeq(s, a + 1, b)
\* s.substr(a), s.substring(a)
Substr(s, a) == SubSeq(s, a + 1, Len(s))

\* the first position >= pos of s that holds no character of set (s.length if none)
ScanWhileIn(s, pos, set) ==
    CHOOSE i \in pos..Len(s) :
        /\ (i = Len(s) \/ s[i + 1] \notin set)
        /\ \A j \in pos..(i - 1) : s[j + 1] \in set
\* the first position >= pos of s that holds a character of set (s.length if none)
ScanUntilIn(s, pos, set) ==
    CHOOSE i \in pos..Len(s) :
        /\ (i = Len(s) \/ s[i + 1] \in set)
        /\ \A j \in pos..(i - 1) : s[j + 1] \notin set

\* String.prototype.trim
trimStart(s) == Substr(s, ScanWhileIn(s, 0, WhiteSpace))
trimRight(s) ==
    LET keep == { i \in 1..Len(s) : s[i] \notin WhiteSpace }
    IN  IF keep = {} THEN <<>>
        ELSE SubSeq(s, 1, CHOOSE i \in keep : \A j \in keep : j <= i)
trim(s) == trimRight(trimStart(s))

startsWith(s, prefix) ==
    Len(s) >= Len(prefix) /\ SubSeq(s, 1, Len(prefix)) = prefix
endsWith(s, suffix) ==
    Len(s) >= Len(suffix) /\ SubSeq(s, Len(s) - Len(suffix) + 1, Len(s)) = suffix

\* String.prototype.toLowerCase on the ASCII letters
LowerChar(c) ==
    IF c \in Range(UpperLetters)
    THEN LowerLetters[CHOOSE i \in DOMAIN UpperLetters : UpperLetters[i] = c]
    ELSE c
toLowerCase(s) == [i \in DOMAIN s |-> LowerChar(s[i])]

\* Array.prototype.join: the left half, the separator, the right half
RECURSIVE join(_, _)
join(parts, sep) ==
    IF Len(parts) = 0 THEN <<>>
    ELSE IF Len(parts) = 1 THEN parts[1]
    ELSE join(SubSeq(parts, 1, Len(parts) \div 2), sep) \o sep
         \o join(SubSeq(parts, Len(parts) \div 2 + 1, Len(parts)), sep)

\* String.prototype.split on one separator character
RECURSIVE split(_, _)
split(s, sep) ==
    LET e == ScanUntilIn(s, 0, {sep})
    IN  IF e = Len(s) THEN <<s>>
        ELSE <<Slice(s, 0, e)>> \o split(Substr(s, e + 1), sep)

\* String.prototype.includes for one character
includes(s, c) == \E i \in DOMAIN s : s[i] = c

\* the quote removal of parseChildren: "remove quotes if the entire content is quoted"
stripQuotes(t) ==
    IF \/ (startsWith(t, <<"\"">>) /\ endsWith(t, <<"\"">>))
       \/ (startsWith(t, <<"'">>) /\ endsWith(t, <<"'">>))
    THEN Slice(t, 1, Len(t) - 1)
    ELSE t

(***************************************************************************)
(* TinyHTMLParser                                                          *)
(*                                                                         *)
(* A value the code holds in a local variable and reads more than once is  *)
(* passed on as an argument of the operator that models the code after     *)
(* the assignment.                                                         *)
(***************************************************************************)
\* getIndentLevel: the run of space characters at pos
getIndentLevel(s, pos) == ScanWhileIn(s, pos, {" "}) - pos

\* readLine: the position of the line's end (the next "\n", or the end of input)
readLineEnd(s, pos) == ScanUntilIn(s, pos, {"\n"})

\* skipWhitespace of parseTagLine
skipWhitespace(line, pos) == ScanWhileIn(line, pos, SpaceTab)

\* "Skip newline if present"
skipNewline(s, pos) == IF CharAt(s, pos) = "\n" THEN pos + 1 ELSE pos

\* the local readIdentifier of parseTagLine: the identifier run at pos and the
\* position after it.  It has no length limit and accepts an empty run.
readIdentifierEnd(line, pos) == ScanWhileIn(line, pos, IdentChars)
identifierTo(line, pos, e) == [text |-> Slice(line, pos, e), pos |-> e]
readIdentifier(line, pos) == identifierTo(line, pos, readIdentifierEnd(line, pos))

\* "Parse classes": while (peek() === '.') { advance(); classes.push(readIdentifier()) }
RECURSIVE readClasses(_, _, _)
RECURSIVE pushClass(_, _, _)
readClasses(line, pos, classes) ==
    IF CharAt(line, pos) = "."
    THEN pushClass(line, classes, readIdentifier(line, pos + 1))
    ELSE [classes |-> classes, pos |-> pos]
pushClass(line, classes, r) == readClasses(line, r.pos, Append(classes, r.text))

\* "Parse ID": an absent id is <<>>, an id is <<text>>
idOf(r) == [id |-> <<r.text>>, pos |-> r.pos]
readId(line, pos) ==
    IF CharAt(line, pos) = "#"
    THEN idOf(readIdentifier(line, pos + 1))
    ELSE [id |-> <<>>, pos |-> pos]

\* the quoted attribute value: a backslash takes the next character literally;
\* the loop ends at the closing quote or at the end of the line
RECURSIVE readQuotedValue(_, _, _, _)
readQuotedValue(line, pos, quote, value) ==
    IF pos < Len(line) /\ CharAt(line, pos) # quote
    THEN IF CharAt(line, pos) = "\\"
         THEN IF pos + 1 < Len(line)
              THEN readQuotedValue(line, pos + 2, quote, Append(value, line[pos + 2]))
              ELSE readQuotedValue(line, pos + 1, quote, value)
         ELSE readQuotedValue(line, pos + 1, quote, Append(value, line[pos + 1]))
    ELSE [value |-> value,
          pos |-> IF CharAt(line, pos) = quote THEN pos + 1 ELSE pos]

\* the value after '=': quoted, or the run up to space, tab or ']'
unquotedTo(line, pos, e) == [value |-> Slice(line, pos, e), pos |-> e]
readAttrValue(line, pos) ==
    IF CharAt(line, pos) \in {"\"", "'"}
    THEN readQuotedValue(line, pos + 1, CharAt(line, pos), <<>>)
    ELSE unquotedTo(line, pos, ScanUntilIn(line, pos, {"]", " ", "\t"}))

\* "Parse attributes (can have multiple [attr=value] blocks)": the two nested
\* loops, one step at a time.  The state of the loops is [pos, attributes, inBlock,
\* done]: inBlock inside the inner loop, done once the outer loop has ended.
\* An attribute is [name, flag, value]: flag is TRUE for a bare name (value: true).
\* maxAttributes is declared by parseTagLine and never read.
maxAttributes == 50

\* if (peek() === ']') advance(); skipWhitespace(): the end of the inner loop
closeAttrBlock(line, st, pos) ==
    [st EXCEPT !.pos = skipWhitespace(line, IF CharAt(line, pos) = "]"
                                            THEN pos + 1 ELSE pos),
               !.inBlock = FALSE]
\* attributes.push({ name: attrName, value }); skipWhitespace()
attrValued(line, st, attrName, v) ==
    [st EXCEPT !.pos = skipWhitespace(line, v.pos),
               !.attributes = Append(@, [name |-> attrName, flag |-> FALSE,
                                         value |-> v.value])]
\* if (peek() === '=') ... else attributes.push({ name, value: true }); skipWhitespace()
attrAfterName(line, st, attrName, pos) ==
    IF CharAt(line, pos) = "="
    THEN attrValued(line, st, attrName,
                    readAttrValue(line, skipWhitespace(line, pos + 1)))
    ELSE [st EXCEPT !.pos = skipWhitespace(line, pos),
                    !.attributes = Append(@, [name |-> attrName, flag |-> TRUE,
                                              value |-> <<>>])]
\* const attrName = readIdentifier(); if (!attrName) break; skipWhitespace()
attrNamed(line, st, n) ==
    IF n.text = <<>>
    THEN closeAttrBlock(line, st, n.pos)
    ELSE attrAfterName(line, st, n.text, skipWhitespace(line, n.pos))
\* one test of a loop condition, and the loop body if it holds
attrStep(line, st) ==
    IF st.done THEN st
    ELSE IF ~st.inBlock
    THEN \* while (peek() === '[') { advance(); ...
         IF CharAt(line, st.pos) = "["
         THEN [st EXCEPT !.pos = @ + 1, !.inBlock = TRUE]
         ELSE [st EXCEPT !.done = TRUE]
    ELSE \* while (pos < line.length && peek() !== ']') { skipWhitespace(); ...
         IF st.pos < Len(line) /\ CharAt(line, st.pos) # "]"
         THEN attrNamed(line, st, readIdentifier(line, skipWhitespace(line, st.pos)))
         ELSE closeAttrBlock(line, st, st.pos)
\* n steps of the loops.  A step reads a character or ends the inner loop, and
\* the outer loop ends or reads a character after that: 2 * line.length + 2
\* steps reach the end of the outer loop.
RECURSIVE attrSteps(_, _, _)
attrSteps(line, n, st) ==
    IF st.done \/ n = 0 THEN st
    ELSE IF n = 1 THEN attrStep(line, st)
    ELSE attrSteps(line, n - (n \div 2), attrSteps(line, n \div 2, st))
readAttrBlocks(line, pos) ==
    attrSteps(line, 2 * Len(line) + 2,
              [pos |-> pos, attributes |-> <<>>, inBlock |-> FALSE, done |-> FALSE])

\* "Check for content": absent content is <<>>, content is <<text>>
pipeContent(line, pos) ==
    IF pos < Len(line)
    THEN <<stripQuotes(trim(Substr(line, pos)))>>
    ELSE << <<"|">> >>
contentAt(line, pos) ==
    IF pos < Len(line)
    THEN IF CharAt(line, pos) = "|"
         THEN pipeContent(line, skipWhitespace(line, pos + 1))
         ELSE IF CharAt(line, pos) = "\""
         THEN <<Slice(line, pos + 1, ScanUntilIn(line, pos + 1, {"\""}))>>
         ELSE <<trim(Substr(line, pos))>>
    ELSE <<>>
readContent(line, pos) ==
    IF CharAt(line, pos) = ":"
    THEN contentAt(line, skipWhitespace(line, pos + 1))
    ELSE <<>>

\* parseTagLine: name, classes, id, attribute blocks, content, in this order
tagAfterAttrs(line, name, classes, id, a) ==
    [name |-> name,
     classes |-> classes,
     id |-> id,
     attributes |-> a.attributes,
     content |-> readContent(line, skipWhitespace(line, a.pos)),
     \* if (!line || line.trim().length === 0) throwError('Empty tag line'):
     \* the one throw of the parse path
     error |-> trim(line) = <<>>]
tagAfterId(line, name, classes, i) ==
    tagAfterAttrs(line, name, classes, i.id, readAttrBlocks(line, i.pos))
tagAfterClasses(line, name, c) ==
    tagAfterId(line, name, c.classes, readId(line, c.pos))
tagAfterName(line, n) ==
    tagAfterClasses(line, n.text, readClasses(line, n.pos, <<>>))
parseTagLine(line) == tagAfterName(line, readIdentifier(line, 0))

\* parseMultilineText(baseIndent): the lines read so far and the position reached
RECURSIVE multilineLines(_, _, _, _)
RECURSIVE multilineLine(_, _, _, _, _)
RECURSIVE multilinePush(_, _, _, _, _)
multilineLines(s, pos, baseIndent, lines) ==
    IF pos < Len(s)
    THEN IF CharAt(s, pos) = "\n"
         THEN multilineLines(s, pos + 1, baseIndent, lines)
         ELSE multilineLine(s, pos, baseIndent, lines, getIndentLevel(s, pos))
    ELSE [lines |-> lines, pos |-> pos]
\* if (indent <= baseIndent) break; skip the indentation; readLine()
multilineLine(s, pos, baseIndent, lines, indent) ==
    IF indent <= baseIndent
    THEN [lines |-> lines, pos |-> pos]
    ELSE multilinePush(s, pos + indent, baseIndent, lines, readLineEnd(s, pos + indent))
\* if (line.trim()) lines.push(line.trim()); if (peek() === '\n') advance()
multilinePush(s, start, baseIndent, lines, e) ==
    multilineLines(s, skipNewline(s, e), baseIndent,
        IF trim(Slice(s, start, e)) # <<>>
        THEN Append(lines, trim(Slice(s, start, e)))
        ELSE lines)

joinedText(r) == [text |-> join(r.lines, <<"\n">>), pos |-> r.pos]
parseMultilineText(s, pos, baseIndent) ==
    joinedText(multilineLines(s, pos, baseIndent, <<>>))

\* the AST nodes of types.ts
DoctypeNode(doctype) == [type |-> "doctype", doctype |-> doctype]
TextNode(content) == [type |-> "text", content |-> content]
TagNode(name, classes, id, attributes, children, selfClosing) ==
    [type |-> "tag", name |-> name, classes |-> classes, id |-> id,
     attributes |-> attributes, children |-> children, selfClosing |-> selfClosing]

\* ['br', 'hr', 'img', 'input', 'meta', 'link', 'source']
SelfClosingNames ==
    { <<"b","r">>, <<"h","r">>, <<"i","m","g">>, <<"i","n","p","u","t">>,
      <<"m","e","t","a">>, <<"l","i","n","k">>, <<"s","o","u","r","c","e">> }

\* the text of a line that starts with '|'
pipeLineText(s, e, currentIndent, line) ==
    IF Len(line) > 1 /\ line[2] = " "
    THEN [text |-> stripQuotes(trim(Substr(line, 2))), pos |-> e]
    ELSE IF Len(line) = 1
    THEN parseMultilineText(s, e, currentIndent)
    ELSE [text |-> stripQuotes(trim(Substr(line, 1))), pos |-> e]
textLineNode(t) == [node |-> TextNode(t.text), pos |-> t.pos, error |-> FALSE]

\* "Regular inline content - remove quotes if entirely quoted"
inlineChild(parsed) ==
    IF parsed.content # <<>> /\ parsed.content[1] # <<>>
    THEN <<TextNode(stripQuotes(parsed.content[1]))>>
    ELSE <<>>

\* the tag a tag line becomes: its inline child first, then the children collected
tagNode(parsed, inline, k) ==
    [node |-> TagNode(parsed.name, parsed.classes, parsed.id, parsed.attributes,
                      inline \o k.children, parsed.name \in SelfClosingNames),
     pos |-> k.pos,
     error |-> parsed.error \/ k.error]

\* parseChildren(parentIndent) from position pos: the children collected, the
\* position reached, and whether the parse threw.  parseLine is the body of the
\* loop for one non-blank line, whose text ends at position e.
RECURSIVE parseChildrenFrom(_, _, _, _)
RECURSIVE childrenAtIndent(_, _, _, _, _)
RECURSIVE childrenAfterLine(_, _, _, _, _, _)
RECURSIVE childrenPush(_, _, _, _)
RECURSIVE parseLine(_, _, _, _)
RECURSIVE parseTag(_, _, _, _)
RECURSIVE tagMultiline(_, _, _, _)
RECURSIVE tagAfterMultiline(_, _, _, _)
RECURSIVE tagChildren(_, _, _, _, _)
parseChildrenFrom(s, pos, parentIndent, children) ==
    IF pos < Len(s)
    THEN IF CharAt(s, pos) = "\n"
         THEN parseChildrenFrom(s, pos + 1, parentIndent, children)
         ELSE childrenAtIndent(s, pos, parentIndent, children, getIndentLevel(s, pos))
    ELSE [children |-> children, pos |-> pos, error |-> FALSE]
\* if (currentIndent <= parentIndent) break; skip the indentation; readLine()
childrenAtIndent(s, pos, parentIndent, children, currentIndent) ==
    IF currentIndent <= parentIndent
    THEN [children |-> children, pos |-> pos, error |-> FALSE]
    ELSE childrenAfterLine(s, parentIndent, children, currentIndent,
             pos + currentIndent, readLineEnd(s, pos + currentIndent))
\* const line = readLine().trim(); if (!line) { skip the newline; continue }
childrenAfterLine(s, parentIndent, children, currentIndent, start, e) ==
    IF trim(Slice(s, start, e)) = <<>>
    THEN parseChildrenFrom(s, skipNewline(s, e), parentIndent, children)
    ELSE childrenPush(s, parentIndent, children,
             parseLine(s, e, currentIndent, trim(Slice(s, start, e))))
\* children.push(node); "Skip newline if present"
childrenPush(s, parentIndent, children, r) ==
    IF r.error
    THEN [children |-> children, pos |-> r.pos, error |-> TRUE]
    ELSE parseChildrenFrom(s, skipNewline(s, r.pos), parentIndent,
             Append(children, r.node))

parseLine(s, e, currentIndent, line) ==
    IF startsWith(line, <<"!","D","O","C","T","Y","P","E"," ">>)
    THEN [node |-> DoctypeNode(trim(Substr(line, 9))), pos |-> e, error |-> FALSE]
    ELSE IF startsWith(line, <<"|">>)
    THEN textLineNode(pipeLineText(s, e, currentIndent, line))
    ELSE IF line[1] \in Letters
    THEN parseTag(s, e, currentIndent, parseTagLine(line))
    ELSE [node |-> TextNode(line), pos |-> e, error |-> FALSE]

\* "Check for multiline content with |", else the inline content
parseTag(s, e, currentIndent, parsed) ==
    IF parsed.content = << <<"|">> >>
    THEN tagMultiline(s, currentIndent, parsed, skipNewline(s, e))
    ELSE tagChildren(s, currentIndent, parsed, inlineChild(parsed), skipNewline(s, e))
\* const nextIndent = getIndentLevel(); if (nextIndent > currentIndent) ...
tagMultiline(s, currentIndent, parsed, pos) ==
    IF getIndentLevel(s, pos) > currentIndent
    THEN tagAfterMultiline(s, currentIndent, parsed,
                           parseMultilineText(s, pos, currentIndent))
    ELSE tagChildren(s, currentIndent, parsed, <<>>, skipNewline(s, pos))
tagAfterMultiline(s, currentIndent, parsed, m) ==
    tagChildren(s, currentIndent, parsed, <<TextNode(m.text)>>, skipNewline(s, m.pos))
\* "Parse children if they exist", at the position after "Skip newline"
tagChildren(s, currentIndent, parsed, inline, pos) ==
    IF pos < Len(s) /\ getIndentLevel(s, pos) > currentIndent
    THEN tagNode(parsed, inline, parseChildrenFrom(s, pos, currentIndent, <<>>))
    ELSE tagNode(parsed, inline, [children |-> <<>>, pos |-> pos, error |-> FALSE])

\* parse(): parseChildren(-1) from the current position
parse(s, pos) == parseChildrenFrom(s, pos, -1, <<>>)

\* one turn of the loop of parseChildren at pos < Len(s): where it ends, the node
\* it pushes, and how it leaves the loop if it does ("break", "throw", else "no")
TopLevel == -1
\* a loop that takes the lines one level too deep for dedented
dedentedEarly(currentIndent, parentIndent) == currentIndent <= parentIndent + 1
\* if (currentIndent <= parentIndent) break
dedented(currentIndent, parentIndent) == currentIndent <= parentIndent
pushTurn(s, r) ==
    IF r.error THEN [pos |-> r.pos, nodes |-> <<>>, left |-> "throw"]
    ELSE [pos |-> skipNewline(s, r.pos), nodes |-> <<r.node>>, left |-> "no"]
lineTurn(s, currentIndent, start, e) ==
    IF trim(Slice(s, start, e)) = <<>>
    THEN [pos |-> skipNewline(s, e), nodes |-> <<>>, left |-> "no"]
    ELSE pushTurn(s, parseLine(s, e, currentIndent, trim(Slice(s, start, e))))
childrenTurn(s, pos, parentIndent) ==
    IF CharAt(s, pos) = "\n" THEN [pos |-> pos + 1, nodes |-> <<>>, left |-> "no"]
    ELSE IF dedented(getIndentLevel(s, pos), parentIndent)
    THEN [pos |-> pos, nodes |-> <<>>, left |-> "break"]
    ELSE lineTurn(s, getIndentLevel(s, pos), pos + getIndentLevel(s, pos),
                  readLineEnd(s, pos + getIndentLevel(s, pos)))
\* one turn of the loop of parseMultilineText at pos < Len(s)
multilineTurn(s, pos, baseIndent) ==
    IF CharAt(s, pos) = "\n" THEN [pos |-> pos + 1, left |-> "no"]
    ELSE IF getIndentLevel(s, pos) <= baseIndent THEN [pos |-> pos, left |-> "break"]
    ELSE [pos |-> skipNewline(s, readLineEnd(s, pos + getIndentLevel(s, pos))),
          left |-> "no"]
\* parse() on a parser disposed of or not: the loop of parseChildren tests
\* this.position < this.input.length, then calls peek(), which throws on a
\* disposed parser
peekThrows(d) == d
parseOn(s, pos, d) ==
    IF pos < Len(s) /\ peekThrows(d)
    THEN [children |-> <<>>, pos |-> pos, error |-> TRUE]
    ELSE parse(s, pos)

\* The argument of the constructor is [kind, text, fill, count]: kind is "string" or
\* what typeof gives for another value; a string is text followed by count copies
\* of the character fill.  A character is a code point: the characters outside
\* ASCII are written by number, "U+0000" is the null character.
Text(s) == [kind |-> "string", text |-> s, fill |-> "", count |-> 0]
AstralChars == {"U+1F600"}
\* the UTF-16 code units of a character: what String.prototype.length counts
utf16Units(c) == IF c \in AstralChars THEN 2 ELSE 1
RECURSIVE unitsOf(_)
unitsOf(s) == IF s = <<>> THEN 0 ELSE utf16Units(Head(s)) + unitsOf(Tail(s))
\* input.length
length(src) == unitsOf(src.text) + src.count * utf16Units(src.fill)
\* input.includes(c)
sourceIncludes(src, c) == includes(src.text, c) \/ (src.count > 0 /\ src.fill = c)

\* 10 * 1024 * 1024 ("10MB limit")
maxInputLength == 10 * 1024 * 1024
\* a constructor without the check for null bytes and invalid Unicode characters
constructorErrorNoSentinels(src) ==
    IF src.kind # "string" \/ length(src) = 0
    THEN "InvalidInput"
    ELSE IF length(src) > maxInputLength
    THEN "InputTooLarge"
    ELSE "none"
\* the "Input validation and security checks" of the constructor: the error thrown,
\* "none" if the constructor goes on to this.input = input.trim()
constructorError(src) ==
    IF src.kind # "string" \/ length(src) = 0
    THEN "InvalidInput"
    ELSE IF length(src) > maxInputLength
    THEN "InputTooLarge"
    ELSE IF \/ sourceIncludes(src, "U+0000")
            \/ sourceIncludes(src, "U+FFFE")
            \/ sourceIncludes(src, "U+FFFF")
    THEN "InvalidInput"
    ELSE "none"

\* input.trim(): the text written out, and the run after it
NoTail == [char |-> "", count |-> 0]
trimmedText(src) ==
    IF src.count = 0 \/ src.fill \in WhiteSpace
    THEN trim(src.text)
    ELSE trimStart(src.text)
trimmedTail(src) ==
    IF src.count = 0 \/ src.fill \in WhiteSpace
    THEN NoTail
    ELSE [char |-> src.fill, count |-> src.count]

(***************************************************************************)
(* HTMLGenerator                                                           *)
(***************************************************************************)
Repeat(c, n) == [i \in 1..n |-> c]

\* the options the constructor sets (preserveWhitespace and prettierOptions are
\* never read by the rendering code)
DefaultIndentSize == 2
DefaultOptions ==
    [indentSize |-> DefaultIndentSize, indentType |-> "spaces",
     minify |-> FALSE, usePrettier |-> TRUE]

\* { ...this.options, ...options }: the argument is a partial record
mergeOptions(opts, arg) ==
    [k \in DOMAIN opts |-> IF k \in DOMAIN arg THEN arg[k] ELSE opts[k]]

\* get indentString
indentString(opts, level) ==
    IF opts.minify THEN <<>>
    ELSE IF opts.indentType = "tabs" THEN Repeat("\t", level)
    ELSE Repeat(" ", level * (IF opts.indentSize = 0 THEN DefaultIndentSize
                                                     ELSE opts.indentSize))
\* get newLine
newLine(opts) == IF opts.minify THEN <<>> ELSE <<"\n">>
\* indent()
indent(opts, level) == IF opts.minify THEN <<>> ELSE indentString(opts, level)

\* String.prototype.replace(/c/g, by) for one character c: every occurrence of c
\* in the left half of s and in the right half of s
RECURSIVE replaceAll(_, _, _)
replaceAll(s, c, by) ==
    IF Len(s) = 0 THEN <<>>
    ELSE IF Len(s) = 1 THEN (IF s[1] = c THEN by ELSE s)
    ELSE replaceAll(SubSeq(s, 1, Len(s) \div 2), c, by)
         \o replaceAll(SubSeq(s, Len(s) \div 2 + 1, Len(s)), c, by)

escapeHtml(text) ==
    replaceAll(
        replaceAll(
            replaceAll(
                replaceAll(text, "&", <<"&","a","m","p",";">>),
                "<", <<"&","l","t",";">>),
            ">", <<"&","g","t",";">>),
        "\"", <<"&","q","u","o","t",";">>)

escapeAttributeValue(text) == escapeHtml(text)

\* one attribute of the for loop of generateAttributes
attributeText(attr) ==
    IF attr.flag THEN attr.name
    ELSE attr.name \o <<"=","\"">> \o escapeAttributeValue(attr.value) \o <<"\"">>

classAttribute(classes) ==
    IF Len(classes) > 0
    THEN << <<"c","l","a","s","s","=","\"">> \o join(classes, <<" ">>) \o <<"\"">> >>
    ELSE <<>>
\* if (id): an absent id and the empty id add nothing
idAttribute(id) ==
    IF id # <<>> /\ id[1] # <<>>
    THEN << <<"i","d","=","\"">> \o id[1] \o <<"\"">> >>
    ELSE <<>>
joinAttributes(attrs) ==
    IF Len(attrs) > 0 THEN <<" ">> \o join(attrs, <<" ">>) ELSE <<>>
generateAttributes(attributes, classes, id) ==
    joinAttributes(classAttribute(classes) \o idAttribute(id)
                   \o [i \in DOMAIN attributes |-> attributeText(attributes[i])])

\* the working state of one rendering: [indentLevel, currentParentTag, outputBuffer]
push(g, text) == [g EXCEPT !.outputBuffer = @ \o text]

\* a generator that compares the parent's name as written, without toLowerCase
shouldEscapeCaseSensitive(name) ==
    name \notin { <<"s","c","r","i","p","t">>, <<"s","t","y","l","e">> }

\* !['script', 'style'].includes(name.toLowerCase())
shouldEscape(name) ==
    toLowerCase(name) \notin { <<"s","c","r","i","p","t">>, <<"s","t","y","l","e">> }

\* shouldEscape ? this.escapeHtml(text) : text, for the text of a Text node under
\* the parent tag in force
processText(parentTag, text) ==
    IF shouldEscape(parentTag) THEN escapeHtml(text) ELSE text

generateDoctype(node, g) ==
    push(g, <<"<","!","D","O","C","T","Y","P","E"," ">> \o node.doctype \o <<">">>)

\* the "Multi-line text" loop of generateText, from line i (zero-based) of n
textLineBreak(i, n, g, opts) ==
    IF i < n - 1 THEN push(g, newLine(opts)) ELSE g
textLine(trimmedLine, i, n, g, opts) ==
    textLineBreak(i, n,
        IF i = 0 /\ g.indentLevel = 0
        THEN push(g, processText(g.currentParentTag, trimmedLine))
        ELSE push(g, indent(opts, g.indentLevel)
                     \o processText(g.currentParentTag, trimmedLine)),
        opts)
RECURSIVE generateTextLines(_, _, _, _)
generateTextLines(lines, i, g, opts) ==
    IF i < Len(lines)
    THEN generateTextLines(lines, i + 1,
             IF trim(lines[i + 1]) = <<>>
             THEN g
             ELSE textLine(trim(lines[i + 1]), i, Len(lines), g, opts),
             opts)
    ELSE g

generateText(node, g, opts) ==
    IF opts.minify
    THEN push(g, processText(g.currentParentTag, trim(node.content)))
    ELSE IF Len(split(node.content, "\n")) = 1
    THEN push(g, indent(opts, g.indentLevel)
                 \o processText(g.currentParentTag, trim(node.content)))
    ELSE generateTextLines(split(node.content, "\n"), 0, g, opts)

\* "Check for single text content (inline)"
InlineLimit == 80
inlineText(node) ==
    IF shouldEscape(node.name)
    THEN escapeHtml(node.children[1].content)
    ELSE trim(node.children[1].content)
rendersInline(node) ==
    /\ Len(node.children) = 1
    /\ node.children[1].type = "text"
    /\ Len(inlineText(node)) < InlineLimit
    /\ ~includes(inlineText(node), "\n")

\* this.indent(), '<', tagName, attrs
openTag(node, g, opts) ==
    indent(opts, g.indentLevel) \o <<"<">> \o node.name
    \o generateAttributes(node.attributes, node.classes, node.id)
\* '</', tagName, '>'
closeTag(node) == <<"<","/">> \o node.name \o <<">">>

\* "Multi-line tag with children": the opening line, and the deeper level
enterBlock(g, opts) ==
    IF ~opts.minify
    THEN [push(g, newLine(opts)) EXCEPT !.indentLevel = @ + 1]
    ELSE g
openBlock(node, g, opts) == enterBlock(push(g, openTag(node, g, opts) \o <<">">>), opts)

\* around one child of a block: this.currentParentTag = previousParent, then the
\* line break
restoreParent(g, previousParent) == [g EXCEPT !.currentParentTag = previousParent]
childNewLine(g, opts) == IF ~opts.minify THEN push(g, newLine(opts)) ELSE g

\* after the children: the level restored, the closing tag
leaveBlock(g, opts) ==
    IF ~opts.minify THEN [g EXCEPT !.indentLevel = @ - 1] ELSE g
pushCloseTag(node, g, opts) == push(g, indent(opts, g.indentLevel) \o closeTag(node))
closeBlock(node, g, opts) == pushCloseTag(node, leaveBlock(g, opts), opts)

RECURSIVE generateNode(_, _, _)
RECURSIVE generateTag(_, _, _)
RECURSIVE generateChildren(_, _, _, _, _)
\* for (const child of node.children): the parent set, the child rendered, the
\* parent restored
generateChildren(children, i, tagName, g, opts) ==
    IF i <= Len(children)
    THEN generateChildren(children, i + 1, tagName,
             childNewLine(
                 restoreParent(
                     generateNode(children[i],
                                  [g EXCEPT !.currentParentTag = tagName], opts),
                     g.currentParentTag),
                 opts),
             opts)
    ELSE g

\* a generator without the early return for self-closing tags
generateTagNoSelfClosing(node, g, opts) ==
    IF Len(node.children) = 0
    THEN push(g, openTag(node, g, opts) \o <<">">> \o closeTag(node))
    ELSE IF rendersInline(node)
    THEN push(g, openTag(node, g, opts) \o <<">">> \o inlineText(node) \o closeTag(node))
    ELSE closeBlock(node,
             generateChildren(node.children, 1, node.name, openBlock(node, g, opts), opts),
             opts)

generateTag(node, g, opts) ==
    IF node.selfClosing
    THEN push(g, openTag(node, g, opts) \o <<" ","/",">">>)
    ELSE IF Len(node.children) = 0
    THEN push(g, openTag(node, g, opts) \o <<">">> \o closeTag(node))
    ELSE IF rendersInline(node)
    THEN push(g, openTag(node, g, opts) \o <<">">> \o inlineText(node) \o closeTag(node))
    ELSE closeBlock(node,
             generateChildren(node.children, 1, node.name, openBlock(node, g, opts), opts),
             opts)

generateNode(node, g, opts) ==
    IF node.type = "doctype" THEN generateDoctype(node, g)
    ELSE IF node.type = "tag" THEN generateTag(node, g, opts)
    ELSE generateText(node, g, opts)

\* "Build HTML using buffer": the loop of generate over the forest
RECURSIVE generateForest(_, _, _, _)
generateForest(forest, i, g, opts) ==
    IF i <= Len(forest)
    THEN generateForest(forest, i + 1,
             childNewLine(generateNode(forest[i], g, opts), opts), opts)
    ELSE g

\* formatHTML, first replace: /\n\s*\n\s*\n/g becomes '\n\n'.  A match starts at a
\* line break whose white-space run holds three line breaks or more, and ends at
\* the last line break of that run.
runEnd(s, i) == ScanWhileIn(s, i - 1, WhiteSpace)
lineBreaksOfRun(s, i) == { j \in i..runEnd(s, i) : s[j] = "\n" }
matchStarts(s) ==
    { i \in 1..Len(s) : s[i] = "\n" /\ Cardinality(lineBreaksOfRun(s, i)) >= 3 }
Minimum(set) == CHOOSE i \in set : \A j \in set : i <= j
Maximum(set) == CHOOSE i \in set : \A j \in set : j <= i
RECURSIVE collapseBlankLines(_)
RECURSIVE collapseMatch(_, _)
collapseBlankLines(s) ==
    IF matchStarts(s) = {} THEN s ELSE collapseMatch(s, Minimum(matchStarts(s)))
collapseMatch(s, first) ==
    SubSeq(s, 1, first - 1) \o <<"\n","\n">>
    \o collapseBlankLines(SubSeq(s, Maximum(lineBreaksOfRun(s, first)) + 1, Len(s)))

\* formatHTML, second replace: /^\s*\n|\n\s*$/g becomes ''
leadingBreaks(s) == { i \in 1..runEnd(s, 1) : s[i] = "\n" }
trimLeadingBlank(s) ==
    IF leadingBreaks(s) = {} THEN s ELSE Substr(s, Maximum(leadingBreaks(s)))
trailingBreaks(s) ==
    { i \in 1..Len(s) : s[i] = "\n" /\ \A j \in (i + 1)..Len(s) : s[j] \in WhiteSpace }
trimTrailingBlank(s) ==
    IF trailingBreaks(s) = {} THEN s ELSE SubSeq(s, 1, Minimum(trailingBreaks(s)) - 1)
trimBlankEnds(s) == trimTrailingBlank(trimLeadingBlank(s))

\* .split('\n').map(line => line.trimRight()).join('\n')
trimLines(lines) == join([i \in DOMAIN lines |-> trimRight(lines[i])], <<"\n">>)
formatHTML(text) == trimLines(split(trimBlankEnds(collapseBlankLines(text)), "\n"))

\* prettier.format: the external formatter, a function of the buffer that this
\* repository does not define; its result is the buffer under a formatter mark
prettierFormat(text) == <<"<!-- prettier -->">> \o text

\* the synchronous part of generate: indentLevel = 0, the buffer emptied, the
\* forest rendered under the merged options
renderBuffer(forest, parentTag, opts) ==
    generateForest(forest, 1,
        [indentLevel |-> 0, currentParentTag |-> parentTag, outputBuffer |-> <<>>],
        opts)

(***************************************************************************)
(* Source texts.                                                           *)
(***************************************************************************)
MaxClasses == 2     \* classes of a generated tag line
MaxAttrs == 2       \* attributes of a generated tag line
MaxLines == 3       \* lines of a generated document

DigitChars == <<"0","1","2","3","4","5","6","7","8","9">>
concat(parts) == join(parts, <<>>)

\* the text with the four characters escapeHtml replaces
SpecialText == <<"<","&",">","\"">>
EscapedText == <<"&","l","t",";","&","a","m","p",";","&","g","t",";",
                 "&","q","u","o","t",";">>

\* --- tag lines: name.class*#id?[attrs]: "text"
ClassName(i) == <<"c", DigitChars[i + 1]>>
ClassLists == { [i \in 1..n |-> ClassName(i)] : n \in 0..MaxClasses }
AttrPool ==
    << [name |-> <<"k">>, flag |-> TRUE, value |-> <<>>],
       [name |-> <<"d","-","x">>, flag |-> FALSE, value |-> <<"1","<","2">>],
       [name |-> <<"k">>, flag |-> FALSE, value |-> <<>>],
       [name |-> <<"h">>, flag |-> TRUE, value |-> <<>>] >>
AttrLists == { SubSeq(AttrPool, 1, n) : n \in 0..MaxAttrs }
OrdinaryNames == { <<"d","i","v">> }
TagLineNames == OrdinaryNames \cup { <<"b","r">>, <<"S","c","r","i","p","t">> }
TagLineTexts ==
    { <<>>, <<"h","i">>, <<"a","<","b">>, <<"|">>, <<"'","q","'">> }
TagLineDescs ==
    [name : TagLineNames, classes : ClassLists, id : { <<>>, << <<"m">> >> },
     attributes : AttrLists, text : TagLineTexts]

renderAttr(a) ==
    IF a.flag THEN a.name ELSE a.name \o <<"=","\"">> \o a.value \o <<"\"">>
renderTagLine(d) ==
    d.name
    \o concat([i \in DOMAIN d.classes |-> <<".">> \o d.classes[i]])
    \o (IF d.id # <<>> THEN <<"#">> \o d.id[1] ELSE <<>>)
    \o (IF d.attributes # <<>>
        THEN <<"[">> \o join([i \in DOMAIN d.attributes |-> renderAttr(d.attributes[i])],
                             <<" ">>) \o <<"]">>
        ELSE <<>>)
    \o <<":"," ","\"">> \o d.text \o <<"\"">>
TagLineInputs == { renderTagLine(d) : d \in TagLineDescs }

\* --- nested documents: lines of five kinds (a tag, a style tag with text, a text
\* line, the marker of a multiline text, a self-closing tag with text), each at
\* most one level deeper than the line before it, two spaces a level
LineKinds ==
    { <<"p">>,
      <<"S","t","y","l","e",":"," ">> \o SpecialText,
      <<"|"," ">> \o SpecialText,
      <<"|">>,
      <<"b","r",":"," ">> \o SpecialText }
NestedDocs ==
    UNION { { d \in [1..n -> [level : 0..(MaxLines - 1), text : LineKinds]] :
                /\ d[1].level = 0
                /\ \A i \in 2..n : d[i].level <= d[i - 1].level + 1 }
            : n \in 1..MaxLines }
renderLine(l) == Repeat(" ", 2 * l.level) \o l.text
renderDoc(d) == join([i \in DOMAIN d |-> renderLine(d[i])], <<"\n">>)
NestedInputs == { renderDoc(d) : d \in NestedDocs }

Sources == TagLineInputs \cup NestedInputs

\* --- documents with blank lines: every line a tag named after its line number, or
\* blank (spaces only: none at level 0); the first line at level 0, the first and
\* the last line not blank
MaxDocLines == 4    \* lines of a document with blank lines
MaxLevel == 2       \* deepest level of such a line
LineName(j) == <<LowerLetters[j]>>
LineShapes == [level : 0..MaxLevel, blank : BOOLEAN]
DedentDocs ==
    UNION { { d \in [1..n -> LineShapes] :
                /\ d[1].level = 0
                /\ ~d[1].blank
                /\ ~d[n].blank }
            : n \in 2..MaxDocLines }
renderShape(d, j) ==
    Repeat(" ", 2 * d[j].level) \o (IF d[j].blank THEN <<>> ELSE LineName(j))
renderDedentDoc(d) == join([j \in DOMAIN d |-> renderShape(d, j)], <<"\n">>)
DedentInputs == { renderDedentDoc(d) : d \in DedentDocs }

\* --- multiline blocks: a marker line at level 0 (a bare '|', or a tag line ending
\* in ': |'), then lines as above
MaxBlockLines == 3  \* lines after the marker line
Markers == { <<"|">>, <<"t",":"," ","|">> }
BlockDocs ==
    UNION { { d \in [1..n -> LineShapes] : ~d[n].blank } : n \in 1..MaxBlockLines }
MultilineDocs == [marker : Markers, lines : BlockDocs]
renderMultilineDoc(m) ==
    m.marker \o <<"\n">> \o renderDedentDoc(m.lines)
MultilineInputs == { renderMultilineDoc(m) : m \in MultilineDocs }

\* --- the limits of the tag-head grammar: attribute blocks of 50 and 51 entries,
\* identifiers of 100 and 101 characters as tag name, class, id and attribute name
maxIdentifierLength == 100
AttrCounts == { maxAttributes, maxAttributes + 1 }
AttrBlockLine(n) ==
    <<"a","[">> \o join([i \in 1..n |-> <<"k">>], <<" ">>) \o <<"]">>
IdentLengths == { maxIdentifierLength, maxIdentifierLength + 1 }
IdentPlaces == { "name", "class", "id", "attribute" }
IdentLine(place, n) ==
    IF place = "name" THEN Repeat("x", n)
    ELSE IF place = "class" THEN <<"a",".">> \o Repeat("x", n)
    ELSE IF place = "id" THEN <<"a","#">> \o Repeat("x", n)
    ELSE <<"a","[">> \o Repeat("x", n) \o <<"]">>
LimitInputs ==
    { AttrBlockLine(n) : n \in AttrCounts }
    \cup { IdentLine(place, n) : place \in IdentPlaces, n \in IdentLengths }

\* --- tag lines with an unterminated quoted string or without the closing ']'
UnterminatedLines ==
    { <<"a","[","b","=","\"","x","]">>,       \* a[b="x]
      <<"a","[","b","=","'","x","]">>,        \* a[b='x]
      <<"a",":"," ","\"","x">> }              \* a: "x
UnclosedBlockLines ==
    { <<"a","[","b">>,                        \* a[b
      <<"a","[","b","=","\"","x","\"">>,      \* a[b="x"
      <<"a","[","b","=","x",":"," ","y">> }   \* a[b=x: y
MalformedInputs == UnterminatedLines \cup UnclosedBlockLines

\* --- tag lines in which a '.' or a '#' is not followed by an identifier character
EmptyIdentifierLines ==
    { <<"d","i","v",".">>,                    \* div.
      <<"d","i","v","#">>,                    \* div#
      <<"d","i","v","#",":"," ","x">>,        \* div#: x
      <<"d","i","v",".",".","a">>,            \* div..a
      <<"d","i","v",".","#","m">> }           \* div.#m

\* --- documents of '!DOCTYPE html' lines and p lines at level 0 or 1
MaxDoctypeLines == 3    \* lines of a document with doctype lines
DoctypeLine == <<"!","D","O","C","T","Y","P","E"," ","h","t","m","l">>
DoctypeDocs ==
    UNION { { d \in [1..n -> [level : 0..1, doctype : BOOLEAN]] : d[1].level = 0 }
            : n \in 1..MaxDoctypeLines }
renderDoctypeLine(l) ==
    Repeat(" ", 2 * l.level) \o (IF l.doctype THEN DoctypeLine ELSE <<"p">>)
renderDoctypeDoc(d) == join([i \in DOMAIN d |-> renderDoctypeLine(d[i])], <<"\n">>)
DoctypeInputs == { renderDoctypeDoc(d) : d \in DoctypeDocs }

\* --- the sources of the parsers that are disposed of
DisposalSources == DedentInputs \cup MalformedInputs \cup DoctypeInputs

ParserSources ==
    DedentInputs \cup MultilineInputs \cup LimitInputs \cup MalformedInputs
    \cup EmptyIdentifierLines \cup DoctypeInputs

\* --- the forests whose generate calls are recorded
HistorySources ==
    { <<"p","\n"," "," ","p">>,               \* p, and a p inside it
      <<"d","i","v",":"," ","\"","h","i","\"">> }

\* --- arguments of the constructor: values that are not strings, and strings made
\* of a short text followed by a run of one character, whose length is about the
\* size limit counted in characters of 1, 2, 3 and 4 bytes
SourceTexts ==
    { <<>>,
      <<"p">>,
      <<" ","p"," ">>,
      <<" "," ">>,
      <<"p","U+0000">>,
      <<"U+FFFE">>,
      <<"p","U+FFFF","p">> }
FillChars == { "a", " ", "U+00E9", "U+20AC", "U+1F600", "U+0000" }
RunCounts ==
    { (maxInputLength \div k) + d : k \in 1..4, d \in 0..1 }
ConstructorArgs ==
    { [kind |-> k, text |-> <<>>, fill |-> "", count |-> 0] : k \in {"undefined", "number"} }
    \cup { Text(t) : t \in SourceTexts }
    \cup [kind : {"string"}, text : SourceTexts, fill : FillChars, count : RunCounts]

\* --- the forests rendered by a generator that is disposed of: those above and
\* the documents of one line
DisposeSources ==
    HistorySources \cup { renderDoc(d) : d \in { d \in NestedDocs : Len(d) = 1 } }

\* --- tags with one text about as long as the inline limit, plain or ending in a
\* character that escapeHtml replaces, under p and under style; and tags whose
\* children are not one single-line text
InlineMargin == 6   \* how far below the inline limit the lengths of the texts start
InlineLengths == (InlineLimit - InlineMargin)..InlineLimit
InlineTails == { <<>>, <<"<">>, <<"&">> }
InlineTexts == { Repeat("x", n) \o tail : n \in InlineLengths, tail \in InlineTails }
InlineNames == { <<"p">>, <<"s","t","y","l","e">> }
InlineLines == { name \o <<":"," ">> \o text : name \in InlineNames, text \in InlineTexts }
BlockSources ==
    { <<"p","\n"," "," ","|"," ","a">>,                          \* p / | a
      <<"p",":"," ","|","\n"," "," ","a","\n"," "," ","b">>,     \* p: | / a / b
      <<"p","\n"," "," ","p">>,                                  \* p / p
      <<"p",":"," ","a","\n"," "," ","|"," ","b">> }             \* p: a / | b
InlineSources == InlineLines \cup BlockSources

\* --- directories: listings of at most MaxFiles entries, in every order, of files
\* named *.tml or not, each with a content that compiles or that the parser's
\* constructor rejects
MaxFiles == 3       \* entries of a directory
FileNames ==
    { <<"a",".","t","m","l">>, <<"b",".","t","m","l">>, <<"c",".","t","m","l">>,
      <<"n",".","t","x","t">> }
FileContents == { Text(<<"p">>), Text(<<>>), Text(<<"p","U+0000">>) }
Listings ==
    UNION { { l \in [1..n -> [name : FileNames, content : FileContents]] :
                \A i, j \in 1..n : i # j => l[i].name # l[j].name }
            : n \in 1..MaxFiles }

\* --- documents with empty text lines, which render as blank lines: lead empty
\* texts, the tag d, inner empty texts as its children, its child e, trail empty
\* texts at the top level
MaxBlank == 3       \* empty text lines in a row
EmptyTextLine == <<"|"," ","\"","\"">>
BlankDocs == [lead : 0..MaxBlank, inner : 0..MaxBlank, trail : 0..MaxBlank]
renderBlankDoc(b) ==
    join([i \in 1..b.lead |-> EmptyTextLine]
         \o << <<"d">> >>
         \o [i \in 1..b.inner |-> <<" "," ">> \o EmptyTextLine]
         \o << <<" "," ","e">> >>
         \o [i \in 1..b.trail |-> EmptyTextLine],
         <<"\n">>)
BlankSources == { renderBlankDoc(b) : b \in BlankDocs }

\* --- inputs of compile: a raw text element and an ordinary element, each with a
\* text child to escape or not and a nested tag, an empty source, a single tag
CompileInputs ==
    { <<"s","c","r","i","p","t","\n"," "," ","|"," ","<","\n"," "," ","e">>,
      <<"d","\n"," "," ","|"," ","<","\n"," "," ","e">>,
      <<>>,
      <<"p">> }
SlotInputs == { <<"p">>, <<>> }
MaxCrowd == 50      \* compile calls in progress besides the one followed

\* --- the contents written to the input file of compileFile, and how often
FileTexts == { <<"p">>, <<"d">> }
MaxMtime == 2       \* modification times of the input file, from 1

\* --- the calls on a cache: keys (NaN is a key of an LRUCache<number, V>),
\* capacities from 1, times to live from 0, modification times given or not
CacheKeys == { "a", "b", "NaN" }
MaxCapacity == 2    \* capacity of the cache
MaxTtl == 1         \* time to live, in ticks of the clock
MaxTime == 2        \* ticks of the clock
MaxListed == 3      \* keys in the access-order list, beyond which set is not called
CacheMtimes == { <<>>, <<1>> }
CurrentMtimes == { 1, 2 }

\* the options arguments of generate: omitted, or a partial record
NoOptions == <<>>
OptionArgs ==
    { NoOptions, [usePrettier |-> FALSE], [minify |-> TRUE], [minify |-> FALSE] }

(***************************************************************************)
(* The state machine: one parser and one generator, as compile() uses      *)
(* them.                                                                   *)
(***************************************************************************)
\* no compileDirectory call
NoDirectory == [state |-> "none"]

\* new LRUCache(capacity, ttl), before any call
DefaultCapacity == 100
DefaultTtl == 5 * 60 * 1000
NoCall == [op |-> "none", key |-> "", result |-> ""]
NewCache(capacity, ttl) ==
    /\ cache = [capacity |-> capacity, ttl |-> ttl, map |-> <<>>, accessOrder |-> <<>>]
    /\ now = 0
    /\ observed = NoCall
    /\ recency = <<>>

\* the state after new TinyHTMLCompiler(): no operation active, no call made
MaxCalls == 2       \* callers followed one by one
Callers == 1..MaxCalls
IdleCall == [pc |-> "idle", input |-> Text(<<>>), html |-> <<>>]
NoCrowd == [waiting |-> 0, slotted |-> 0, formatting |-> 0]
NewCompiler ==
    /\ activeOperations = 0
    /\ compilerDisposed = FALSE
    /\ calls = [c \in Callers |-> IdleCall]
    /\ crowd = NoCrowd

\* no compileFile call made; the input file as first written, no output file
FilePath == "a"
FirstContent == <<"p">>
IdleFileCall == [pc |-> "idle", mtime |-> 0, html |-> <<>>]
NewFiles ==
    /\ fileCalls = [c \in Callers |-> IdleFileCall]
    /\ disk = [content |-> FirstContent, mtime |-> 1, output |-> <<>>]

\* the state after new TinyHTMLParser(src), whose constructor trims the source,
\* and new HTMLGenerator()
InitFrom(sources) ==
    /\ source \in { Text(src) : src \in sources }
    /\ constructorError(source) = "none"
    /\ input = trimmedText(source)
    /\ inputTail = trimmedTail(source)
    /\ position = 0
    /\ parserState = "constructed"
    /\ ast = <<>>
    /\ parserDisposed = FALSE
    /\ options = DefaultOptions
    /\ indentLevel = 0
    /\ currentParentTag = <<>>
    /\ outputBuffer = <<>>
    /\ disposed = FALSE
    /\ genState = "idle"
    /\ genArgs = NoOptions
    /\ html = <<>>
    /\ returned = {}
    /\ directory = NoDirectory
    /\ NewCompiler
    /\ NewCache(DefaultCapacity, DefaultTtl)
    /\ NewFiles

Init == InitFrom(Sources)

\* parser.parse(), called once on a parser as compile() does
parseReturns(r) ==
    /\ position' = r.pos
    /\ parserState' = IF r.error THEN "failed" ELSE "parsed"
    /\ ast' = IF r.error THEN <<>> ELSE r.children
Parse ==
    /\ parserState \in {"constructed", "disposed"}
    /\ inputTail.count = 0
    /\ parseReturns(parseOn(input, position, parserDisposed))
    /\ UNCHANGED <<source, input, inputTail, parserDisposed, generatorVars, directory, compilerVars, cacheVars, fileVars>>

\* generator.generate(ast, arg) up to its return or to its one suspension point,
\* the await of the formatter
generateRendered(opts, g) ==
    /\ options' = opts
    /\ indentLevel' = g.indentLevel
    /\ currentParentTag' = g.currentParentTag
    /\ IF opts.usePrettier /\ ~opts.minify
       THEN /\ genState' = "formatting"
            /\ outputBuffer' = g.outputBuffer
            /\ html' = g.outputBuffer
       ELSE /\ genState' = "returned"
            /\ outputBuffer' = <<>>
            /\ html' = IF opts.minify THEN g.outputBuffer
                                      ELSE formatHTML(g.outputBuffer)
generateMerged(opts) ==
    generateRendered(opts, renderBuffer(ast, currentParentTag, opts))
\* a generate that does not look at this.disposed
throwsDisposedNever(d) == FALSE
\* if (this.disposed) this.throwError('Generator has been disposed')
throwsDisposed(d) == d
GenerateCall(arg) ==
    /\ parserState = "parsed"
    /\ genState # "formatting"
    /\ IF throwsDisposed(disposed)
       THEN /\ genState' = "GeneratorDisposed"
            /\ UNCHANGED <<options, indentLevel, currentParentTag, outputBuffer, html>>
       ELSE generateMerged(mergeOptions(options, arg))
    /\ UNCHANGED <<parserVars, disposed, directory, compilerVars, cacheVars, fileVars>>

\* the race of the formatter against the 5 second timer settles: the formatter's
\* text, or the fallback formatHTML when it failed or timed out
FormatterOutcomes == {"formatted", "failed", "timeout"}
\* a generate that returns the buffer as it is when the formatter fails
FormatterRaceNoFallback(outcome) ==
    /\ genState = "formatting"
    /\ html' = IF outcome = "formatted" THEN prettierFormat(html) ELSE html
    /\ outputBuffer' = <<>>
    /\ genState' = "returned"
    /\ UNCHANGED <<parserVars, options, indentLevel, currentParentTag, disposed,
                   genArgs, directory, compilerVars, cacheVars, fileVars>>
FormatterRace(outcome) ==
    /\ genState = "formatting"
    /\ html' = IF outcome = "formatted" THEN prettierFormat(html) ELSE formatHTML(html)
    /\ outputBuffer' = <<>>
    /\ genState' = "returned"
    /\ UNCHANGED <<parserVars, options, indentLevel, currentParentTag, disposed,
                   genArgs, directory, compilerVars, cacheVars, fileVars>>

\* generator.dispose(): nothing if disposed already
dispose(g) ==
    IF g.disposed THEN g
    ELSE [indentLevel |-> 0, currentParentTag |-> <<>>, outputBuffer |-> <<>>,
          disposed |-> TRUE]
disposeTo(g) ==
    /\ indentLevel' = g.indentLevel
    /\ currentParentTag' = g.currentParentTag
    /\ outputBuffer' = g.outputBuffer
    /\ disposed' = g.disposed
Dispose ==
    /\ disposeTo(dispose([indentLevel |-> indentLevel,
                          currentParentTag |-> currentParentTag,
                          outputBuffer |-> outputBuffer,
                          disposed |-> disposed]))
    /\ UNCHANGED <<parserVars, options, genState, genArgs, html, returned, directory, compilerVars, cacheVars, fileVars>>

Generate(arg) == GenerateCall(arg) /\ UNCHANGED <<genArgs, returned>>
FormatterSettles(outcome) == FormatterRace(outcome) /\ UNCHANGED returned

Next ==
    \/ Parse
    \/ \E arg \in OptionArgs : Generate(arg)
    \/ \E outcome \in FormatterOutcomes : FormatterSettles(outcome)

Spec == Init /\ [][Next]_vars

\* parser.dispose(), on a parser constructed: before parse() or after it
ParserDispose ==
    /\ parserState \in {"constructed", "parsed", "failed"}
    /\ ~parserDisposed
    /\ input' = <<>>
    /\ inputTail' = NoTail
    /\ position' = 0
    /\ parserDisposed' = TRUE
    /\ parserState' = "disposed"
    /\ UNCHANGED <<source, ast, generatorVars, directory, compilerVars, cacheVars, fileVars>>

\* a parser that is disposed of, and parse() called before and after
InitDisposal == InitFrom(DisposalSources)
NextDisposal == Parse \/ ParserDispose
SpecDisposal == InitDisposal /\ [][NextDisposal]_vars

\* parser.parse() turn by turn of the loop of parseChildren(-1): the test of the
\* loop, then one turn or the return
turnDone(t) ==
    /\ position' = t.pos
    /\ ast' = IF t.left = "throw" THEN <<>> ELSE ast \o t.nodes
    /\ parserState' = IF t.left = "throw" THEN "failed"
                      ELSE IF t.left = "break" THEN "parsed" ELSE "parsing"
ParseTurn ==
    /\ parserState \in {"constructed", "parsing"}
    /\ inputTail.count = 0
    /\ IF position < Len(input)
       THEN \E t \in {childrenTurn(input, position, TopLevel)} : turnDone(t)
       ELSE parserState' = "parsed" /\ UNCHANGED <<position, ast>>
    /\ UNCHANGED <<source, input, inputTail, parserDisposed, generatorVars, directory,
                   compilerVars, cacheVars, fileVars>>
InitTurns == InitFrom(ParserSources \cup BlankSources)
NextTurns == ParseTurn
SpecTurns == InitTurns /\ [][NextTurns]_vars

\* the parser alone, on the documents with blank lines, the multiline blocks and
\* the lines at the limits of the grammar
InitParser == InitFrom(ParserSources)
NextParser == Parse
SpecParser == InitParser /\ [][NextParser]_vars

\* one generator called again and again on the forest in hand, every result
\* recorded with the options argument of its call and with what the formatter did
\* ("none" when generate did not call it)
GenerateRecorded(arg) ==
    /\ GenerateCall(arg)
    /\ genArgs' = arg
    /\ returned' = IF genState' = "returned"
                   THEN returned \cup {[args |-> arg, formatter |-> "none", text |-> html']}
                   ELSE returned
FormatterRecorded(outcome) ==
    /\ FormatterRace(outcome)
    /\ returned' = returned \cup {[args |-> genArgs, formatter |-> outcome, text |-> html']}
HistoryArgs == { NoOptions, [usePrettier |-> FALSE], [minify |-> TRUE] }
InitHistory == InitFrom(HistorySources)
NextHistory ==
    \/ Parse
    \/ \E arg \in HistoryArgs : GenerateRecorded(arg)
    \/ \E outcome \in FormatterOutcomes : FormatterRecorded(outcome)
SpecHistory == InitHistory /\ [][NextHistory]_vars

\* parse and generate on the tags about the inline limit
InitInline == InitFrom(InlineSources)
SpecInline == InitInline /\ [][Next]_vars

\* parse and generate on the documents that render blank lines
InitBlank == InitFrom(BlankSources)
SpecBlank == InitBlank /\ [][Next]_vars

\* one generator that is disposed of at any moment, between or during its generate
\* calls
InitDispose == InitFrom(DisposeSources)
NextDispose ==
    \/ Parse
    \/ \E arg \in OptionArgs : Generate(arg)
    \/ \E outcome \in FormatterOutcomes : FormatterSettles(outcome)
    \/ Dispose
SpecDispose == InitDispose /\ [][NextDispose]_vars

\* compileFile(fullPath, outputPath) on a new compiler, whose cache is empty: the
\* file is read and compiled, and the output written; it rejects if compile throws,
\* which it does when the parser's constructor or parse throws
compileFileFails(content) ==
    \/ constructorError(content) # "none"
    \/ parse(trimmedText(content), 0).error
\* file.endsWith('.tml')
isTml(file) == endsWith(file.name, <<".","t","m","l">>)

\* compileDirectory(dirPath, outputDir, { parallel }) up to its loop: the directory
\* has been listed.  parallel is the value of options.parallel !== false; tasks[i]
\* is the state of the compileFile task of entry i.
CompileDirectory(files, parallel) ==
    /\ directory.state = "none"
    /\ directory' = [state |-> "listing", parallel |-> parallel, files |-> files,
                     index |-> 1, tasks |-> [i \in DOMAIN files |-> "none"]]
    /\ UNCHANGED <<parserVars, generatorVars, compilerVars, cacheVars, fileVars>>

\* one turn of the loop over the entries, after the stat of the entry: a .tml file
\* gets a task, which is awaited at once unless the tasks run in parallel; after the
\* last entry the tasks collected, if any, are awaited together
loopTurn(d) ==
    IF d.index > Len(d.files)
    THEN [d EXCEPT !.state = IF d.parallel /\ \E i \in DOMAIN d.tasks : d.tasks[i] # "none"
                              THEN "all" ELSE "resolved"]
    ELSE IF isTml(d.files[d.index])
    THEN IF d.parallel
         THEN [d EXCEPT !.tasks[d.index] = "running", !.index = @ + 1]
         ELSE [d EXCEPT !.tasks[d.index] = "running", !.state = "awaiting"]
    ELSE [d EXCEPT !.index = @ + 1]
DirectoryLoop ==
    /\ directory.state = "listing"
    /\ directory' = loopTurn(directory)
    /\ UNCHANGED <<parserVars, generatorVars, compilerVars, cacheVars, fileVars>>

\* a compileFile task settles: the output is written, or the task rejects
CompileFileSettles(i) ==
    /\ directory.state \notin {"none"}
    /\ i \in DOMAIN directory.tasks
    /\ directory.tasks[i] = "running"
    /\ directory' = [directory EXCEPT !.tasks[i] =
                         IF compileFileFails(directory.files[i].content)
                         THEN "failed" ELSE "written"]
    /\ UNCHANGED <<parserVars, generatorVars, compilerVars, cacheVars, fileVars>>

\* await task, in sequential mode: the loop goes on, or the rejection is thrown and
\* caught by the catch block, which rejects the call
awaited(d) ==
    IF d.tasks[d.index] = "failed"
    THEN [d EXCEPT !.state = "rejected"]
    ELSE [d EXCEPT !.state = "listing", !.index = @ + 1]
AwaitTask ==
    /\ directory.state = "awaiting"
    /\ directory.tasks[directory.index] \in {"written", "failed"}
    /\ directory' = awaited(directory)
    /\ UNCHANGED <<parserVars, generatorVars, compilerVars, cacheVars, fileVars>>

\* await Promise.all(compilationTasks): rejects when a task has rejected, resolves
\* when every task has resolved
AwaitAll ==
    /\ directory.state = "all"
    /\ \/ /\ \E i \in DOMAIN directory.tasks : directory.tasks[i] = "failed"
          /\ directory' = [directory EXCEPT !.state = "rejected"]
       \/ /\ \A i \in DOMAIN directory.tasks : directory.tasks[i] \in {"none", "written"}
          /\ directory' = [directory EXCEPT !.state = "resolved"]
    /\ UNCHANGED <<parserVars, generatorVars, compilerVars, cacheVars, fileVars>>

\* one compileDirectory call on a new compiler
InitDirectory == InitFrom({<<"p">>})
NextDirectory ==
    \/ \E files \in Listings, parallel \in BOOLEAN : CompileDirectory(files, parallel)
    \/ DirectoryLoop
    \/ \E i \in 1..MaxFiles : CompileFileSettles(i)
    \/ AwaitTask
    \/ AwaitAll
SpecDirectory == InitDirectory /\ [][NextDirectory]_vars

(***************************************************************************)
(* LRUCache.  The Map is the sequence of its entries in insertion order,   *)
(* each [key, value, timestamp, mtime]; mtime is <<>> where undefined.     *)
(* The Map finds a key by SameValueZero, Array.prototype.indexOf by ===:   *)
(* they differ on NaN, which is a key as any other to the Map and is never *)
(* found by indexOf.                                                       *)
(***************************************************************************)
sameValueZero(x, y) == x = y
strictEquals(x, y) == x = y /\ x # "NaN"

\* Map.prototype: the place of a key (0 if none), has, set, delete
mapPlaces(map, key) == { i \in DOMAIN map : sameValueZero(map[i].key, key) }
mapPlace(map, key) == IF mapPlaces(map, key) = {} THEN 0 ELSE Minimum(mapPlaces(map, key))
mapHas(map, key) == mapPlace(map, key) # 0
mapSet(map, entry) ==
    IF mapHas(map, entry.key) THEN [map EXCEPT ![mapPlace(map, entry.key)] = entry]
    ELSE Append(map, entry)
removeAt(seq, i) == SubSeq(seq, 1, i - 1) \o SubSeq(seq, i + 1, Len(seq))
mapDelete(map, key) == IF mapHas(map, key) THEN removeAt(map, mapPlace(map, key)) ELSE map
\* Array.prototype.indexOf, from 1 (0 for the -1 of the source)
indexOf(list, key) ==
    IF \E i \in DOMAIN list : strictEquals(list[i], key)
    THEN Minimum({ i \in DOMAIN list : strictEquals(list[i], key) }) ELSE 0

\* Date.now() - entry.timestamp > this.ttl
expired(c, entry, t) == t - entry.timestamp > c.ttl

moveToEnd(c, key) ==
    IF indexOf(c.accessOrder, key) # 0
    THEN [c EXCEPT !.accessOrder = Append(removeAt(@, indexOf(c.accessOrder, key)), key)]
    ELSE c
evictLRU(c) ==
    IF Len(c.accessOrder) > 0
    THEN [c EXCEPT !.accessOrder = Tail(@), !.map = mapDelete(@, Head(c.accessOrder))]
    ELSE c
\* delete(key): the cache after the call; it returns whether the Map held the key
delete(c, key) ==
    IF mapHas(c.map, key)
    THEN [c EXCEPT !.map = mapDelete(@, key),
                   !.accessOrder = IF indexOf(c.accessOrder, key) # 0
                                   THEN removeAt(@, indexOf(c.accessOrder, key)) ELSE @]
    ELSE c
\* get, has, isValid: the cache after the call and the value returned
get(c, key, t) ==
    IF ~mapHas(c.map, key) THEN [cache |-> c, result |-> "undefined"]
    ELSE IF expired(c, c.map[mapPlace(c.map, key)], t)
    THEN [cache |-> delete(c, key), result |-> "undefined"]
    ELSE [cache |-> moveToEnd(c, key), result |-> c.map[mapPlace(c.map, key)].value]
has(c, key, t) ==
    IF ~mapHas(c.map, key) THEN [cache |-> c, result |-> "false"]
    ELSE IF expired(c, c.map[mapPlace(c.map, key)], t)
    THEN [cache |-> delete(c, key), result |-> "false"]
    ELSE [cache |-> c, result |-> "true"]
olderThan(entry, currentMtime) == entry.mtime # <<>> /\ entry.mtime[1] < currentMtime
isValid(c, key, currentMtime, t) ==
    IF ~mapHas(c.map, key) THEN [cache |-> c, result |-> "false"]
    ELSE IF expired(c, c.map[mapPlace(c.map, key)], t)
    THEN [cache |-> delete(c, key), result |-> "false"]
    ELSE IF olderThan(c.map[mapPlace(c.map, key)], currentMtime)
    THEN [cache |-> delete(c, key), result |-> "false"]
    ELSE [cache |-> c, result |-> "true"]
\* set(key, value, mtime)
newEntry(key, value, mtime, t) ==
    [key |-> key, value |-> value, timestamp |-> t, mtime |-> mtime]
insert(c, entry) ==
    [c EXCEPT !.map = mapSet(@, entry), !.accessOrder = Append(@, entry.key)]
set(c, entry) ==
    IF mapHas(c.map, entry.key)
    THEN moveToEnd([c EXCEPT !.map = mapSet(@, entry)], entry.key)
    ELSE IF Len(c.map) >= c.capacity THEN insert(evictLRU(c), entry)
    ELSE insert(c, entry)
clear(c) == [c EXCEPT !.map = <<>>, !.accessOrder = <<>>]
\* cleanup(): the entries of the Map visited in insertion order, the expired ones
\* deleted; it returns their number
RECURSIVE cleanupFrom(_, _, _, _)
cleanupFrom(c, entries, i, t) ==
    IF i > Len(entries) THEN c
    ELSE cleanupFrom(IF expired(c, entries[i], t) THEN delete(c, entries[i].key) ELSE c,
                     entries, i + 1, t)
cleanup(c, t) == cleanupFrom(c, c.map, 1, t)

\* the stored keys in the order of their last successful get or set: the key of
\* the call, if it succeeded, becomes the last; the keys no longer stored go
storedKeys(c) == { c.map[i].key : i \in DOMAIN c.map }
isStored(c, key) == key \in storedKeys(c)
RECURSIVE without(_, _)
without(list, key) ==
    IF list = <<>> THEN <<>>
    ELSE IF Head(list) = key THEN without(Tail(list), key)
    ELSE <<Head(list)>> \o without(Tail(list), key)
RECURSIVE stillStored(_, _)
stillStored(list, c) ==
    IF list = <<>> THEN <<>>
    ELSE IF isStored(c, Head(list)) THEN <<Head(list)>> \o stillStored(Tail(list), c)
    ELSE stillStored(Tail(list), c)
usedNow(key, c) == stillStored(without(recency, key) \o <<key>>, c)

\* the calls on the cache
cacheCall(op, key, c, result, used) ==
    /\ cache' = c
    /\ observed' = [op |-> op, key |-> key, result |-> result]
    /\ recency' = IF used THEN usedNow(key, c) ELSE stillStored(recency, c)
    /\ UNCHANGED now
returns(op, key, r, used) == cacheCall(op, key, r.cache, r.result, used)
Get(key) ==
    /\ \E r \in {get(cache, key, now)} :
           returns("get", key, r, isStored(r.cache, key))
    /\ UNCHANGED <<parserVars, generatorVars, directory, compilerVars, fileVars>>
Set(key, value, mtime) ==
    /\ Len(cache.accessOrder) < MaxListed
    /\ cacheCall("set", key, set(cache, newEntry(key, value, mtime, now)), "undefined", TRUE)
    /\ UNCHANGED <<parserVars, generatorVars, directory, compilerVars, fileVars>>
Has(key) ==
    /\ returns("has", key, has(cache, key, now), FALSE)
    /\ UNCHANGED <<parserVars, generatorVars, directory, compilerVars, fileVars>>
IsValid(key, currentMtime) ==
    /\ returns("isValid", key, isValid(cache, key, currentMtime, now), FALSE)
    /\ UNCHANGED <<parserVars, generatorVars, directory, compilerVars, fileVars>>
Delete(key) ==
    /\ cacheCall("delete", key, delete(cache, key),
                 IF mapHas(cache.map, key) THEN "true" ELSE "false", FALSE)
    /\ UNCHANGED <<parserVars, generatorVars, directory, compilerVars, fileVars>>
Cleanup ==
    /\ cacheCall("cleanup", "", cleanup(cache, now), "number", FALSE)
    /\ UNCHANGED <<parserVars, generatorVars, directory, compilerVars, fileVars>>
Clear ==
    /\ cacheCall("clear", "", clear(cache), "undefined", FALSE)
    /\ UNCHANGED <<parserVars, generatorVars, directory, compilerVars, fileVars>>
\* time passes
Tick ==
    /\ now < MaxTime
    /\ now' = now + 1
    /\ UNCHANGED <<parserVars, generatorVars, directory, compilerVars, cache, observed,
                   recency, fileVars>>

\* a cache of any small capacity and ttl, called in any order
InitCache ==
    /\ source = Text(<<"p">>)
    /\ input = <<"p">>
    /\ inputTail = NoTail
    /\ position = 0
    /\ parserState = "constructed"
    /\ ast = <<>>
    /\ parserDisposed = FALSE
    /\ options = DefaultOptions
    /\ indentLevel = 0
    /\ currentParentTag = <<>>
    /\ outputBuffer = <<>>
    /\ disposed = FALSE
    /\ genState = "idle"
    /\ genArgs = NoOptions
    /\ html = <<>>
    /\ returned = {}
    /\ directory = NoDirectory
    /\ NewCompiler
    /\ \E capacity \in 1..MaxCapacity, ttl \in 0..MaxTtl : NewCache(capacity, ttl)
    /\ NewFiles
NextCache ==
    \/ \E key \in CacheKeys : Get(key)
    \/ \E key \in CacheKeys, mtime \in CacheMtimes : Set(key, "v", mtime)
    \/ \E key \in CacheKeys : Has(key)
    \/ \E key \in CacheKeys, currentMtime \in CurrentMtimes : IsValid(key, currentMtime)
    \/ \E key \in CacheKeys : Delete(key)
    \/ Cleanup
    \/ Clear
    \/ Tick
SpecCache == InitCache /\ [][NextCache]_vars

(***************************************************************************)
(* compile(input) on one TinyHTMLCompiler: the calls share its generator   *)
(* and its counter of active operations.  A call is "idle" (not made),     *)
(* "waiting" (in the timer of waitForSlot), "slotted" (slot taken, the     *)
(* await of waitForSlot pending), "formatting" (in the await of generate), *)
(* "resolved" or "rejected".                                               *)
(***************************************************************************)
maxConcurrentOperations == 50

sharedGenerator ==
    [options |-> options, indentLevel |-> indentLevel,
     currentParentTag |-> currentParentTag, outputBuffer |-> outputBuffer,
     disposed |-> disposed]
generatorBecomes(g) ==
    /\ options' = g.options
    /\ indentLevel' = g.indentLevel
    /\ currentParentTag' = g.currentParentTag
    /\ outputBuffer' = g.outputBuffer
    /\ disposed' = g.disposed

\* a generate that renders after what the buffer holds
bufferKept(buffer) == buffer
\* this.outputBuffer.length = 0
bufferEmptied(buffer) == <<>>
\* generate(ast) on the generator g, from this.indentLevel = 0 to the join of the
\* buffer: one synchronous run
generateSync(forest, g) ==
    generateForest(forest, 1,
        [g EXCEPT !.indentLevel = 0, !.outputBuffer = bufferEmptied(@)], g.options)
\* the await of the formatter, or the return
generated(g) ==
    IF g.options.usePrettier /\ ~g.options.minify
    THEN [pc |-> "formatting", g |-> g, html |-> g.outputBuffer]
    ELSE [pc |-> "resolved", g |-> [g EXCEPT !.outputBuffer = <<>>],
          html |-> IF g.options.minify THEN g.outputBuffer
                                       ELSE formatHTML(g.outputBuffer)]
\* catch: the error is rethrown as 'TinyHTML compilation failed'
threw(g) == [pc |-> "rejected", g |-> g, html |-> <<>>]
\* parser.parse(), then generator.generate(ast): r is what parse returns
generateOn(r, g) ==
    IF r.error \/ throwsDisposed(g.disposed) THEN threw(g)
    ELSE generated(generateSync(r.children, g))
\* the try block of compile up to the await of generate
compileBody(src, g) ==
    IF constructorError(src) # "none" THEN threw(g)
    ELSE generateOn(parse(trimmedText(src), 0), g)

\* waitForSlot: while (activeOperations >= maxConcurrentOperations) wait
slotFree(n) == ~(n >= maxConcurrentOperations)
\* a compiler that never gives a slot back
slotKept(n) == n
\* releaseSlot
releaseSlot(n) == n - 1

\* compile(src), up to the first await: the disposed test, then waitForSlot up to
\* its timer or, the slot taken, to its return
called(c, src, to) == [calls EXCEPT ![c] = [pc |-> to, input |-> Text(src), html |-> <<>>]]
compileCalled(c, src) ==
    IF compilerDisposed
    THEN calls' = called(c, src, "rejected") /\ UNCHANGED activeOperations
    ELSE IF slotFree(activeOperations)
    THEN calls' = called(c, src, "slotted") /\ activeOperations' = activeOperations + 1
    ELSE calls' = called(c, src, "waiting") /\ UNCHANGED activeOperations
Compile(c, src) ==
    /\ calls[c].pc = "idle"
    /\ compileCalled(c, src)
    /\ UNCHANGED <<parserVars, generatorVars, directory, compilerDisposed, crowd, cacheVars, fileVars>>

\* the 10 ms timer of waitForSlot fires: the loop tests again
SlotTimer(c) ==
    /\ calls[c].pc = "waiting"
    /\ IF slotFree(activeOperations)
       THEN /\ calls' = [calls EXCEPT ![c].pc = "slotted"]
            /\ activeOperations' = activeOperations + 1
       ELSE UNCHANGED <<calls, activeOperations>>
    /\ UNCHANGED <<parserVars, generatorVars, directory, compilerDisposed, crowd, cacheVars, fileVars>>

\* after await this.waitForSlot(): the try block up to the await of generate, and
\* the finally block if it does not get there
bodyDone(c, o) ==
    /\ generatorBecomes(o.g)
    /\ calls' = [calls EXCEPT ![c].pc = o.pc, ![c].html = o.html]
    /\ activeOperations' = IF o.pc = "formatting" THEN activeOperations
                                                  ELSE releaseSlot(activeOperations)
CompileBody(c) ==
    /\ calls[c].pc = "slotted"
    /\ \E o \in {compileBody(calls[c].input, sharedGenerator)} : bodyDone(c, o)
    /\ UNCHANGED <<parserVars, genState, genArgs, html, returned, directory,
                   compilerDisposed, crowd, cacheVars, fileVars>>

\* the race of the formatter settles: generate empties the buffer and returns,
\* compile returns through its finally block
CompileResumes(c, outcome) ==
    /\ calls[c].pc = "formatting"
    /\ calls' = [calls EXCEPT ![c].pc = "resolved",
                              ![c].html = IF outcome = "formatted"
                                          THEN prettierFormat(@) ELSE formatHTML(@)]
    /\ outputBuffer' = <<>>
    /\ activeOperations' = releaseSlot(activeOperations)
    /\ UNCHANGED <<parserVars, options, indentLevel, currentParentTag, disposed,
                   genState, genArgs, html, returned, directory, compilerDisposed, crowd, cacheVars, fileVars>>

\* compiler.dispose(): the generator disposed of, the cache cleared (the parser
\* pool holds nothing)
CompilerDispose ==
    /\ ~compilerDisposed
    /\ disposeTo(dispose([indentLevel |-> indentLevel,
                          currentParentTag |-> currentParentTag,
                          outputBuffer |-> outputBuffer,
                          disposed |-> disposed]))
    /\ cache' = clear(cache)
    /\ recency' = stillStored(recency, clear(cache))
    /\ compilerDisposed' = TRUE
    /\ UNCHANGED <<parserVars, options, genState, genArgs, html, returned, directory,
                   activeOperations, calls, crowd, now, observed, fileVars>>

\* the same steps for a call of the crowd, whose input is CrowdInput and whose
\* result nobody reads; a call on a disposed compiler is rejected at once
CrowdInput == Text(<<"p">>)
crowdSize == crowd.waiting + crowd.slotted + crowd.formatting
CrowdCompile ==
    /\ ~compilerDisposed
    /\ crowdSize < MaxCrowd
    /\ IF slotFree(activeOperations)
       THEN /\ crowd' = [crowd EXCEPT !.slotted = @ + 1]
            /\ activeOperations' = activeOperations + 1
       ELSE /\ crowd' = [crowd EXCEPT !.waiting = @ + 1]
            /\ UNCHANGED activeOperations
    /\ UNCHANGED <<parserVars, generatorVars, directory, compilerDisposed, calls, cacheVars, fileVars>>
CrowdTimer ==
    /\ crowd.waiting > 0
    /\ IF slotFree(activeOperations)
       THEN /\ crowd' = [crowd EXCEPT !.waiting = @ - 1, !.slotted = @ + 1]
            /\ activeOperations' = activeOperations + 1
       ELSE UNCHANGED <<crowd, activeOperations>>
    /\ UNCHANGED <<parserVars, generatorVars, directory, compilerDisposed, calls, cacheVars, fileVars>>
crowdBodyDone(o) ==
    /\ generatorBecomes(o.g)
    /\ crowd' = IF o.pc = "formatting"
                THEN [crowd EXCEPT !.slotted = @ - 1, !.formatting = @ + 1]
                ELSE [crowd EXCEPT !.slotted = @ - 1]
    /\ activeOperations' = IF o.pc = "formatting" THEN activeOperations
                                                  ELSE releaseSlot(activeOperations)
CrowdBody ==
    /\ crowd.slotted > 0
    /\ \E o \in {compileBody(CrowdInput, sharedGenerator)} : crowdBodyDone(o)
    /\ UNCHANGED <<parserVars, genState, genArgs, html, returned, directory,
                   compilerDisposed, calls, cacheVars, fileVars>>
CrowdResumes ==
    /\ crowd.formatting > 0
    /\ crowd' = [crowd EXCEPT !.formatting = @ - 1]
    /\ outputBuffer' = <<>>
    /\ activeOperations' = releaseSlot(activeOperations)
    /\ UNCHANGED <<parserVars, options, indentLevel, currentParentTag, disposed,
                   genState, genArgs, html, returned, directory, compilerDisposed, calls, cacheVars, fileVars>>

\* the callers followed one by one, each calling compile once, and dispose
InitCompile == InitFrom({<<"p">>})
NextCompile ==
    \/ \E c \in Callers, src \in CompileInputs : Compile(c, src)
    \/ \E c \in Callers : CompileBody(c)
    \/ \E c \in Callers, outcome \in FormatterOutcomes : CompileResumes(c, outcome)
    \/ CompilerDispose
SpecCompile == InitCompile /\ [][NextCompile]_vars

\* one caller followed among a crowd of calls that come again and again
NextSlots ==
    \/ \E src \in SlotInputs : Compile(1, src)
    \/ SlotTimer(1)
    \/ CompileBody(1)
    \/ \E outcome \in FormatterOutcomes : CompileResumes(1, outcome)
    \/ CrowdCompile
    \/ CrowdTimer
    \/ CrowdBody
    \/ CrowdResumes
    \/ CompilerDispose
SpecSlots == InitCompile /\ [][NextSlots]_vars

\* the same, with what the event loop guarantees: a timer fires, the race of the
\* formatter settles within its 5 seconds, and the continuation of an await on a
\* settled promise runs.  For the call followed the last two are stated on its
\* place: it does not stay "slotted" or "formatting" for ever (CompileBody and
\* CompileResumes are the only steps that end these).  Nothing makes a new call
\* come or keeps a slot free until a timer fires.
SlotsFairness ==
    /\ WF_vars(SlotTimer(1))
    /\ WF_vars(CrowdTimer)
    /\ WF_vars(CrowdResumes)
    /\ []<>(calls[1].pc # "slotted")
    /\ []<>(calls[1].pc # "formatting")
    /\ []<>(crowd.slotted = 0)
SpecSlotsFair == SpecSlots /\ SlotsFairness

(***************************************************************************)
(* compileFile(inputPath) on one path.  A call is "idle" (not made),       *)
(* "stat" (fs.promises.stat pending), "statted" (the stats taken, the      *)
(* await not yet resumed), "cached" (writeFile of the cached html          *)
(* pending), "reading" (readFile pending), "compiling" (in the await of    *)
(* this.compile), "writing" (mkdir and writeFile pending), "resolved" or   *)
(* "rejected".  The file is written by others between any two steps.       *)
(***************************************************************************)
fileCallAt(c, pc) == [fileCalls EXCEPT ![c].pc = pc]
\* compileFile(path), up to the await of stat; a caller calls again once its call
\* has settled
CompileFile(c) ==
    /\ fileCalls[c].pc \in {"idle", "resolved", "rejected"}
    /\ fileCalls' = [fileCalls EXCEPT ![c] =
                        [IdleFileCall EXCEPT !.pc = IF compilerDisposed THEN "rejected"
                                                                        ELSE "stat"]]
    /\ UNCHANGED <<parserVars, generatorVars, directory, compilerVars, cacheVars, disk>>
\* stat reads the modification time of the file
StatSettles(c) ==
    /\ fileCalls[c].pc = "stat"
    /\ fileCalls' = [fileCalls EXCEPT ![c].pc = "statted", ![c].mtime = disk.mtime]
    /\ UNCHANGED <<parserVars, generatorVars, directory, compilerVars, cacheVars, disk>>
\* cached && cached.mtime >= stats.mtimeMs, r being what the get of the cache did
cacheHit(r, mtime) ==
    /\ isStored(r.cache, FilePath)
    /\ r.result.mtime >= mtime
\* after await stat: the cache asked, then the await of writeFile or of readFile
StatResumes(c) ==
    /\ fileCalls[c].pc = "statted"
    /\ \E r \in {get(cache, FilePath, now)} :
           /\ returns("get", FilePath, r, isStored(r.cache, FilePath))
           /\ fileCalls' = IF cacheHit(r, fileCalls[c].mtime)
                           THEN [fileCalls EXCEPT ![c].pc = "cached",
                                                  ![c].html = r.result.html]
                           ELSE fileCallAt(c, "reading")
    /\ UNCHANGED <<parserVars, generatorVars, directory, compilerVars, disk>>
\* writeFile(output, cached.html) settles and compileFile returns
WriteCached(c) ==
    /\ fileCalls[c].pc = "cached"
    /\ disk' = [disk EXCEPT !.output = fileCalls[c].html]
    /\ fileCalls' = fileCallAt(c, "resolved")
    /\ UNCHANGED <<parserVars, generatorVars, directory, compilerVars, cacheVars>>
\* readFile settles: this.compile(input) called, up to its first await
ReadSettles(c) ==
    /\ fileCalls[c].pc = "reading"
    /\ calls[c].pc = "idle"
    /\ compileCalled(c, disk.content)
    /\ fileCalls' = fileCallAt(c, "compiling")
    /\ UNCHANGED <<parserVars, generatorVars, directory, compilerDisposed, crowd,
                   cacheVars, disk>>
\* the value stored for the path: { html, mtime: stats.mtimeMs }
compiledEntry(h, mtime, t) ==
    newEntry(FilePath, [html |-> h, mtime |-> mtime], <<mtime>>, t)
\* after await this.compile(input): the result stored in the cache, then the
\* awaits of mkdir and writeFile; a failed compile is rethrown
CompileReturns(c) ==
    /\ fileCalls[c].pc = "compiling"
    /\ calls[c].pc \in {"resolved", "rejected"}
    /\ IF calls[c].pc = "resolved"
       THEN /\ cacheCall("set", FilePath,
                         set(cache, compiledEntry(calls[c].html, fileCalls[c].mtime, now)),
                         "undefined", TRUE)
            /\ fileCalls' = [fileCalls EXCEPT ![c].pc = "writing",
                                              ![c].html = calls[c].html]
       ELSE /\ fileCalls' = fileCallAt(c, "rejected")
            /\ UNCHANGED cacheVars
    /\ calls' = [calls EXCEPT ![c] = IdleCall]
    /\ UNCHANGED <<parserVars, generatorVars, directory, activeOperations,
                   compilerDisposed, crowd, disk>>
\* writeFile(output, html) settles and compileFile returns
WriteSettles(c) ==
    /\ fileCalls[c].pc = "writing"
    /\ disk' = [disk EXCEPT !.output = fileCalls[c].html]
    /\ fileCalls' = fileCallAt(c, "resolved")
    /\ UNCHANGED <<parserVars, generatorVars, directory, compilerVars, cacheVars>>
\* somebody writes the input file: its modification time grows
Modify(text) ==
    /\ disk.mtime < MaxMtime
    /\ disk' = [disk EXCEPT !.content = text, !.mtime = @ + 1]
    /\ UNCHANGED <<parserVars, generatorVars, directory, compilerVars, cacheVars, fileCalls>>
\* more than the time to live of the cache passes
TtlPasses ==
    /\ now = 0
    /\ now' = now + cache.ttl + 1
    /\ UNCHANGED <<parserVars, generatorVars, directory, compilerVars, cache, observed,
                   recency, fileVars>>

\* the callers call compileFile on the path again and again while the file is
\* written
InitFile == InitFrom({<<"p">>})
NextFile ==
    \/ \E c \in Callers : CompileFile(c)
    \/ \E c \in Callers : StatSettles(c)
    \/ \E c \in Callers : StatResumes(c)
    \/ \E c \in Callers : WriteCached(c)
    \/ \E c \in Callers : ReadSettles(c)
    \/ \E c \in Callers : CompileBody(c)
    \/ \E c \in Callers, outcome \in FormatterOutcomes : CompileResumes(c, outcome)
    \/ \E c \in Callers : CompileReturns(c)
    \/ \E c \in Callers : WriteSettles(c)
    \/ \E text \in FileTexts : Modify(text)
    \/ TtlPasses
    \/ CompilerDispose
SpecFile == InitFile /\ [][NextFile]_vars

\* new TinyHTMLParser(source): the checks, then this.input = input.trim()
Construct ==
    /\ parserState = "new"
    /\ parserState' = IF constructorError(source) = "none"
                      THEN "constructed" ELSE constructorError(source)
    /\ input' = IF constructorError(source) = "none" THEN trimmedText(source) ELSE input
    /\ inputTail' = IF constructorError(source) = "none"
                    THEN trimmedTail(source) ELSE inputTail
    /\ UNCHANGED <<source, position, ast, parserDisposed, generatorVars, directory, compilerVars, cacheVars, fileVars>>

\* the constructor called on every kind of argument, and parse() on the parsers
\* constructed
InitConstruct ==
    /\ source \in ConstructorArgs
    /\ input = <<>>
    /\ inputTail = NoTail
    /\ position = 0
    /\ parserState = "new"
    /\ ast = <<>>
    /\ parserDisposed = FALSE
    /\ options = DefaultOptions
    /\ indentLevel = 0
    /\ currentParentTag = <<>>
    /\ outputBuffer = <<>>
    /\ disposed = FALSE
    /\ genState = "idle"
    /\ genArgs = NoOptions
    /\ html = <<>>
    /\ returned = {}
    /\ directory = NoDirectory
    /\ NewCompiler
    /\ NewCache(DefaultCapacity, DefaultTtl)
    /\ NewFiles
NextConstruct == Construct \/ Parse
SpecConstruct == InitConstruct /\ [][NextConstruct]_vars

(***************************************************************************)
(* The claims.                                                             *)
(***************************************************************************)
\* generate has returned and the external formatter was not called
formatterOff == genState = "returned" /\ ~(options.usePrettier /\ ~options.minify)

\* the number of places where pat occurs in s
Occurrences(s, pat) ==
    Cardinality({ i \in 1..(Len(s) - Len(pat) + 1) : SubSeq(s, i, i + Len(pat) - 1) = pat })

\* the documented shape of a tag and of its attributes, written out character by
\* character
EscapeOf(c) ==
    IF c = "&" THEN <<"&","a","m","p",";">>
    ELSE IF c = "<" THEN <<"&","l","t",";">>
    ELSE IF c = ">" THEN <<"&","g","t",";">>
    ELSE IF c = "\"" THEN <<"&","q","u","o","t",";">>
    ELSE <<c>>
expectedEscaped(text) == concat([i \in DOMAIN text |-> EscapeOf(text[i])])
expectedAttr(a) ==
    IF a.flag THEN <<" ">> \o a.name
    ELSE <<" ">> \o a.name \o <<"=","\"">> \o expectedEscaped(a.value) \o <<"\"">>
expectedAttrs(classes, id, attributes) ==
    (IF classes # <<>>
     THEN <<" ","c","l","a","s","s","=","\"">> \o join(classes, <<" ">>) \o <<"\"">>
     ELSE <<>>)
    \o (IF id # <<>> THEN <<" ","i","d","=","\"">> \o id[1] \o <<"\"">> ELSE <<>>)
    \o concat([i \in DOMAIN attributes |-> expectedAttr(attributes[i])])
expectedTagLine(d) ==
    <<"<">> \o d.name \o expectedAttrs(d.classes, d.id, d.attributes) \o <<">">>
    \o expectedEscaped(d.text) \o <<"<","/">> \o d.name \o <<">">>

\* the names under which text is written as it is
RawTextNames == { <<"s","c","r","i","p","t">>, <<"s","t","y","l","e">> }
\* a tag line whose name is neither self-closing nor script or style
ordinaryTagLine(d) ==
    d.name \notin SelfClosingNames /\ toLowerCase(d.name) \notin RawTextNames

\* C1: for every well-formed tag line name.class*#id?[attrs]: "text" (here: those
\* whose name is neither self-closing nor script or style), generate(parse(line))
\* without the external formatter is exactly <name class="classes" id="id"
\* attrs>escaped text</name>: class first, then id, then every attribute in source
\* order, a bare attribute as its name, a valued one as name="escaped value".
C1_TagLineShape ==
    formatterOff =>
        \A d \in TagLineDescs :
            (input = renderTagLine(d) /\ ordinaryTagLine(d)) => html = expectedTagLine(d)

\* a text the parser keeps as it is: not the multiline sentinel, and not enclosed in
\* a pair of equal quotes
keptText(text) ==
    /\ text # <<"|">>
    /\ ~(Len(text) >= 1 /\ text[1] = "'" /\ text[Len(text)] = "'")
    /\ ~(Len(text) >= 1 /\ text[1] = "\"" /\ text[Len(text)] = "\"")
\* what does hold of tag lines: the shape is the documented one when the text is
\* one the parser keeps
TagLineShapeOfKeptText ==
    formatterOff =>
        \A d \in TagLineDescs :
            (input = renderTagLine(d) /\ ordinaryTagLine(d) /\ keptText(d.text))
                => html = expectedTagLine(d)

\* the tag nodes of a forest, at every depth
RECURSIVE tagNodes(_)
tagNodes(forest) ==
    UNION { {forest[i]} \cup tagNodes(forest[i].children) :
              i \in { i \in DOMAIN forest : forest[i].type = "tag" } }
tagNames(forest) == { node.name : node \in tagNodes(forest) }
\* the children of the tag called name (<<>> if there is none)
childrenOf(forest, name) ==
    IF name \in tagNames(forest)
    THEN (CHOOSE node \in tagNodes(forest) : node.name = name).children
    ELSE <<>>

\* the lines after line k of d that are not blank and come before the first line
\* that is not blank and not deeper than line k
followingDeeper(d, k) ==
    { j \in (k + 1)..Len(d) :
        /\ ~d[j].blank
        /\ \A m \in (k + 1)..j : ~d[m].blank => d[m].level > d[k].level }

\* C2: the lines below a tag line T are exactly the non-blank lines that follow it
\* up to the first line whose indentation is not greater than T's; that line is a
\* sibling of T or of one of its ancestors.
C2_DedentEndsChildren ==
    parserState = "parsed" =>
        \A d \in DedentDocs :
            input = renderDedentDoc(d) =>
                /\ tagNames(ast) = { LineName(j) : j \in { j \in DOMAIN d : ~d[j].blank } }
                /\ \A k \in DOMAIN d :
                       ~d[k].blank =>
                           tagNames(childrenOf(ast, LineName(k)))
                               = { LineName(j) : j \in followingDeeper(d, k) }

\* C3: every Tag node parse returns whose name is br, hr, img, input, meta, link or
\* source is self-closing and has no children, whatever follows it in the source.
C3_SelfClosingHasNoChildren ==
    parserState = "parsed" =>
        \A node \in tagNodes(ast) :
            node.name \in SelfClosingNames => node.selfClosing /\ node.children = <<>>

\* the self-closing tags generate reaches: it does not look below one
RECURSIVE emittedSelfClosing(_)
emittedSelfClosing(forest) ==
    IF forest = <<>> THEN 0
    ELSE (IF forest[1].type # "tag" THEN 0
          ELSE IF forest[1].selfClosing THEN 1
          ELSE emittedSelfClosing(forest[1].children))
         + emittedSelfClosing(Tail(forest))

RECURSIVE emittedTexts(_, _, _)
emittedTexts(forest, parentTag, raw) ==
    IF forest = <<>> THEN 0
    ELSE (IF forest[1].type = "text"
          THEN (IF (toLowerCase(parentTag) \in RawTextNames) = raw
                THEN Occurrences(forest[1].content, SpecialText) ELSE 0)
          ELSE IF forest[1].type = "tag" /\ ~forest[1].selfClosing
          THEN emittedTexts(forest[1].children, forest[1].name, raw)
          ELSE 0)
         + emittedTexts(Tail(forest), parentTag, raw)

\* C5: the immediate parent alone decides escaping.  Each text <&>" of a Text node
\* that is written appears as &lt;&amp;&gt;&quot; when the node's parent is not
\* script or style (in any letter case) or when the node is at top level, and as
\* <&>" when its parent is script or style, on the inline path and on the block
\* path, at every depth.
C5_EscapingByImmediateParent ==
    formatterOff =>
        /\ Occurrences(html, SpecialText) = emittedTexts(ast, <<>>, TRUE)
        /\ Occurrences(html, EscapedText) = emittedTexts(ast, <<>>, FALSE)

\* a Style block with two texts, followed by a text at top level, has been rendered
C5_Witness ==
    /\ formatterOff
    /\ Len(ast) = 2
    /\ ast[1].type = "tag"
    /\ toLowerCase(ast[1].name) \in RawTextNames
    /\ Len(ast[1].children) = 2
    /\ ast[1].children[2] = TextNode(SpecialText)
    /\ ast[2] = TextNode(SpecialText)

\* the first line after the marker that is not blank and not deeper than the
\* marker line (one past the last line if there is none), and the names of the
\* lines of the block
blockEnd(lines) ==
    Minimum({ j \in DOMAIN lines : ~lines[j].blank /\ lines[j].level = 0 }
            \cup {Len(lines) + 1})
RECURSIVE blockLines(_, _, _)
blockLines(lines, j, end) ==
    IF j >= end THEN <<>>
    ELSE (IF lines[j].blank THEN <<>> ELSE <<LineName(j)>>)
         \o blockLines(lines, j + 1, end)
blockText(lines) == join(blockLines(lines, 1, blockEnd(lines)), <<"\n">>)
\* what the marker line has become: the node of a bare '|', the children of t: |
markerNodes(m, forest) ==
    IF m.marker = <<"|">> THEN <<forest[1]>>
    ELSE IF forest[1].type = "tag" THEN forest[1].children
    ELSE <<>>

\* C6: a multiline block (a bare '|' line, or a tag line ending in ': |') with
\* lines below it gives one Text node: the trimmed non-blank lines that follow with
\* an indentation greater than the marker line's, in source order, joined by single
\* newlines.  The block ends at the first line whose indentation is not greater,
\* and that line is parsed next as an ordinary line.
C6_MultilineBlock ==
    parserState = "parsed" =>
        \A m \in MultilineDocs :
            (input = renderMultilineDoc(m) /\ blockText(m.lines) # <<>>) =>
                /\ markerNodes(m, ast) = <<TextNode(blockText(m.lines))>>
                /\ blockEnd(m.lines) <= Len(m.lines) =>
                       /\ Len(ast) >= 2
                       /\ ast[2].type = "tag"
                       /\ ast[2].name = LineName(blockEnd(m.lines))

\* C7: on one generator, two generate calls on the same forest with the same
\* options argument (both omitted included) return the same text, whatever calls
\* were made before or between them.  The calls compared are those in which the
\* external formatter did the same: was not called, formatted, failed, timed out.
C7_SameArgumentsSameText ==
    \A r1, r2 \in returned :
        (r1.args = r2.args /\ r1.formatter = r2.formatter) => r1.text = r2.text

\* C8: a tag line with an attribute block of more than 50 entries makes parse fail;
\* a block of at most 50 entries is accepted.
C8_AttributeLimit ==
    parserState # "constructed" =>
        \A n \in AttrCounts :
            input = AttrBlockLine(n) =>
                IF n > maxAttributes
                THEN parserState = "failed"
                ELSE parserState = "parsed" /\ Len(ast[1].attributes) = n

\* C9: a tag line whose tag name, class name, id or attribute name is longer than
\* 100 characters makes parse fail; identifiers of at most 100 characters are
\* accepted.
C9_IdentifierLimit ==
    parserState # "constructed" =>
        \A place \in IdentPlaces, n \in IdentLengths :
            input = IdentLine(place, n) =>
                IF n > maxIdentifierLength
                THEN parserState = "failed"
                ELSE parserState = "parsed"

\* C10: a tag line with an unterminated quoted string, or with an attribute block
\* that has no closing ']', makes parse fail, and no AST is returned.
C10_MalformedTagLineFails ==
    parserState # "constructed" =>
        (input \in MalformedInputs => parserState = "failed" /\ ast = <<>>)

\* C11: a tag line in which a '.' or a '#' is not followed by an identifier
\* character makes parse fail; so no Tag node that parse returns has an empty
\* string among its classes or as its id.
C11_EmptyIdentifierFails ==
    parserState # "constructed" =>
        /\ input \in EmptyIdentifierLines => parserState = "failed"
        /\ \A node \in tagNodes(ast) :
               /\ \A i \in DOMAIN node.classes : node.classes[i] # <<>>
               /\ node.id # << <<>> >>

\* the UTF-8 bytes of a character, and of the argument of the constructor
utf8Bytes(c) ==
    IF c \in {"U+00E9"} THEN 2
    ELSE IF c \in {"U+20AC", "U+FFFE", "U+FFFF"} THEN 3
    ELSE IF c \in AstralChars THEN 4
    ELSE 1
RECURSIVE bytesOf(_)
bytesOf(s) == IF s = <<>> THEN 0 ELSE utf8Bytes(Head(s)) + bytesOf(Tail(s))
byteLength(src) == bytesOf(src.text) + src.count * utf8Bytes(src.fill)

\* C12: the constructor rejects with InputTooLarge every input of more than
\* 10 * 1024 * 1024 UTF-8 bytes, whatever its number of characters, before any
\* parsing; an input of at most that many bytes is not rejected for size.
C12_ByteLengthLimit ==
    (source.kind = "string" /\ parserState # "new") =>
        /\ byteLength(source) > 10 * 1024 * 1024 =>
               parserState = "InputTooLarge" /\ ast = <<>>
        /\ byteLength(source) <= 10 * 1024 * 1024 => parserState # "InputTooLarge"

\* an argument that is not text, is empty, or holds a null byte, U+FFFE or U+FFFF
ForbiddenChars == {"U+0000", "U+FFFE", "U+FFFF"}
invalidSource(src) ==
    \/ src.kind # "string"
    \/ (src.text = <<>> /\ src.count = 0)
    \/ \E i \in DOMAIN src.text : src.text[i] \in ForbiddenChars
    \/ (src.count > 0 /\ src.fill \in ForbiddenChars)

\* C13 as stated: the constructor fails with InvalidInput on every input that is
\* empty, is not text, or contains a null byte, U+FFFE or U+FFFF; no parser and no
\* AST is produced.
C13_InvalidInputRejected ==
    (invalidSource(source) /\ parserState # "new") =>
        parserState = "InvalidInput" /\ ast = <<>>

\* C13, amended: on such an input the constructor fails before any line is parsed,
\* and no parser and no AST is produced; the error is InvalidInput, except that a
\* string of more than 10 * 1024 * 1024 UTF-16 code units fails with InputTooLarge
\* whatever it contains (the size is checked before the content).
C13_InvalidInputFails ==
    (invalidSource(source) /\ parserState # "new") =>
        /\ parserState =
               IF source.kind = "string" /\ length(source) > 10 * 1024 * 1024
               THEN "InputTooLarge" ELSE "InvalidInput"
        /\ ast = <<>>
        /\ input = <<>>
        /\ position = 0

\* the constructor has rejected a string of moderate size for a null character in it
C13_Witness ==
    /\ parserState = "InvalidInput"
    /\ source.kind = "string"
    /\ source.count = 0
    /\ \E i \in DOMAIN source.text : source.text[i] = "U+0000"

\* C14: once dispose() has been called on a generator it stays disposed and a
\* second dispose() changes nothing; every generate call after it fails with
\* GeneratorDisposed and returns no text (the only text that can still arrive is
\* that of a call suspended on the formatter when dispose() was called); a generate
\* call on a generator that is not disposed never fails with that error.
C14_DisposedGeneratorFails ==
    /\ [][disposed =>
             UNCHANGED <<disposed, options, indentLevel, currentParentTag, outputBuffer>>]_vars
    /\ [][(disposed /\ genState # "formatting") =>
             (html' = html /\ genState' \in {genState, "GeneratorDisposed"})]_vars
    /\ [](genState = "GeneratorDisposed" => disposed)

\* generate has been called on a disposed generator that had returned a text before
C14_Witness ==
    /\ disposed
    /\ genState = "GeneratorDisposed"
    /\ html # <<>>

\* C15: with the external formatter on and minify off, a formatter that fails or
\* does not answer within 5 seconds does not make generate fail: generate returns,
\* and its text is the fallback formatHTML applied to the buffer rendered from the
\* forest.  With minify on the formatter is never called.
C15_FormatterFallback ==
    /\ [][\A r \in returned' \ returned :
             r.formatter \in {"failed", "timeout"} =>
                 /\ genState' = "returned"
                 /\ html' = r.text
                 /\ r.text = formatHTML(renderBuffer(ast, <<>>, options).outputBuffer)]_vars
    /\ [][genState = "formatting" => genState' \in {"formatting", "returned"}]_vars
    /\ [](genState = "formatting" => (options.usePrettier /\ ~options.minify))
    /\ [](\A r \in returned :
             r.formatter # "none" =>
                 ("minify" \notin DOMAIN r.args \/ ~r.args.minify))

\* generate has returned after a formatter failure and after a formatter timeout
C15_Witness ==
    /\ \E r \in returned : r.formatter = "failed" /\ r.text # <<>>
    /\ \E r \in returned : r.formatter = "timeout" /\ r.text # <<>>

\* C16: in minify mode the text generate returns holds no newline character and no
\* indentation (here: no run of two spaces, the unit of indentation), for every
\* forest, those with Text nodes of several lines included.
C16_MinifyNoNewline ==
    (formatterOff /\ options.minify) =>
        /\ ~includes(html, "\n")
        /\ Occurrences(html, <<" "," ">>) = 0

\* a tag whose children are one Text node of a single line shorter than 80
\* characters, counted before escaping
oneShortText(node) ==
    /\ Len(node.children) = 1
    /\ node.children[1].type = "text"
    /\ ~includes(node.children[1].content, "\n")
    /\ Len(node.children[1].content) < 80
\* the tag on one line
expectedInline(node) ==
    <<"<">> \o node.name \o expectedAttrs(node.classes, node.id, node.attributes)
    \o <<">">>
    \o (IF toLowerCase(node.name) \in RawTextNames
        THEN node.children[1].content
        ELSE expectedEscaped(node.children[1].content))
    \o <<"<","/">> \o node.name \o <<">">>

\* C17: a Tag that is not self-closing and has children is rendered on one line as
\* <name attrs>content</name> exactly when it has one child, a Text node without a
\* newline whose own length, before escaping, is below 80; else as a block of
\* several lines.  Stated of a forest that is one such tag, rendered without minify.
C17_InlineBelowLimit ==
    (/\ formatterOff
     /\ ~options.minify
     /\ Len(ast) = 1
     /\ ast[1].type = "tag"
     /\ ~ast[1].selfClosing
     /\ ast[1].children # <<>>) =>
        IF oneShortText(ast[1])
        THEN html = expectedInline(ast[1])
        ELSE includes(html, "\n")

\* the lines of d that are not blank, from line j on, as they are written
RECURSIVE writtenLines(_, _)
writtenLines(d, j) ==
    IF j > Len(d) THEN <<>>
    ELSE (IF d[j].blank THEN <<>> ELSE <<renderShape(d, j)>>) \o writtenLines(d, j + 1)
withoutBlankLines(d) == join(writtenLines(d, 1), <<"\n">>)

\* C18: blank lines never affect nesting: a document of tag lines with empty lines
\* and lines of spaces between them parses to the forest of the same document
\* without those lines.
C18_BlankLinesIgnored ==
    parserState = "parsed" =>
        \A d \in DedentDocs :
            input = renderDedentDoc(d) =>
                ast = parse(withoutBlankLines(d), 0).children

\* C19: in the forest parse returns, a Doctype node is an element of the top-level
\* forest only, never a child of a Tag, and it has no children (it holds its type
\* and its doctype and nothing else), whatever the indentation of the '!DOCTYPE '
\* line and of the lines after it.
C19_DoctypeTopLevelOnly ==
    parserState = "parsed" =>
        /\ \A node \in tagNodes(ast) :
               \A i \in DOMAIN node.children : node.children[i].type # "doctype"
        /\ \A i \in DOMAIN ast :
               ast[i].type = "doctype" => DOMAIN ast[i] = {"type", "doctype"}

\* the compileDirectory call has settled and no compileFile task is in progress
directorySettled ==
    /\ directory.state \in {"resolved", "rejected"}
    /\ \A i \in DOMAIN directory.tasks : directory.tasks[i] # "running"

\* C20: in compileDirectory an error in one .tml file aborts that file only: once
\* the call has settled and nothing is in progress, every .tml file of the
\* directory whose content compiles has been compiled and written, in parallel
\* mode and in sequential mode, in whatever order the files are listed.
C20_OtherFilesCompiled ==
    directorySettled =>
        \A i \in DOMAIN directory.files :
            (/\ isTml(directory.files[i])
             /\ directory.files[i].content.text # <<>>
             /\ \A k \in DOMAIN directory.files[i].content.text :
                    directory.files[i].content.text[k] \notin ForbiddenChars)
                => directory.tasks[i] = "written"

\* the normalization as documented, line by line: the blank lines before the
\* first and after the last non-blank line go, a run of blank lines between two
\* non-blank lines is kept if it has 1 or 2 lines and becomes 1 blank line if it
\* has 3 or more, and every line kept loses its trailing white space
isBlankLine(line) == trim(line) = <<>>
documentedRun(run) == IF run >= 3 THEN 1 ELSE run
RECURSIVE documentedLines(_, _, _, _)
documentedLines(lines, i, run, out) ==
    IF i > Len(lines) THEN out
    ELSE IF isBlankLine(lines[i]) THEN documentedLines(lines, i + 1, run + 1, out)
    ELSE documentedLines(lines, i + 1, 0,
             (IF out = <<>> THEN <<>> ELSE out \o Repeat(<<>>, documentedRun(run)))
             \o <<trimRight(lines[i])>>)
documentedNormalizer(text) ==
    join(documentedLines(split(text, "\n"), 1, 0, <<>>), <<"\n">>)

\* C21: the fallback normalizer changes the rendered buffer only as documented:
\* when generate returns without the formatter's text (formatter off, failed or
\* timed out, minify off), its text is the buffer with every run of 3 or more
\* blank lines made 1 blank line, runs of 1 or 2 blank lines kept, the leading
\* and trailing blank lines removed and the trailing white space of every line
\* stripped; indentation and content of the non-blank lines are unchanged.
C21_FallbackAsDocumented ==
    /\ [][(genState = "formatting" /\ genState' = "returned")
            => html' \in {prettierFormat(html), documentedNormalizer(html)}]_vars
    /\ []((formatterOff /\ ~options.minify)
            => html = documentedNormalizer(renderBuffer(ast, <<>>, options).outputBuffer))

\* what a compile call alone on a new compiler holds at the await of generate, and
\* the texts it can return
NewGenerator ==
    [options |-> DefaultOptions, indentLevel |-> 0, currentParentTag |-> <<>>,
     outputBuffer |-> <<>>, disposed |-> FALSE]
loneCompile(src) == compileBody(src, NewGenerator)
loneTexts(o) ==
    IF o.pc = "formatting" THEN {prettierFormat(o.html), formatHTML(o.html)}
    ELSE IF o.pc = "resolved" THEN {o.html}
    ELSE {}

\* C22: when several compile calls run concurrently on one compiler, whatever the
\* interleaving at their suspension points, each call holds at the await of the
\* formatter the buffer a lone compile of its own input would hold, and returns a
\* text a lone compile of its own input would return.
C22_ConcurrentCompileAsLone ==
    \A c \in Callers :
        /\ calls[c].pc = "formatting" => calls[c].html = loneCompile(calls[c].input).html
        /\ calls[c].pc = "resolved" => calls[c].html \in loneTexts(loneCompile(calls[c].input))

\* a call has returned, after another call on another input rendered its buffer,
\* which the return emptied while that call was still in the formatter
C22_Witness ==
    \E c1, c2 \in Callers :
        /\ calls[c1].pc = "resolved"
        /\ calls[c2].pc = "formatting"
        /\ calls[c1].input # calls[c2].input
        /\ calls[c1].html # <<>>
        /\ calls[c2].html # <<>>
        /\ outputBuffer = <<>>
        /\ ~disposed

\* the compile calls between slot acquisition and slot release
holdingSlot == { c \in Callers : calls[c].pc \in {"slotted", "formatting"} }
slotsHeld == Cardinality(holdingSlot) + crowd.slotted + crowd.formatting
allSettled ==
    /\ \A c \in Callers : calls[c].pc \in {"idle", "resolved", "rejected"}
    /\ crowdSize = 0

\* C23: under any interleaving of concurrent compile calls, activeOperations stays
\* within 0..50 and equals the number of calls between slot acquisition and slot
\* release; every exit path (success, parse error, generator error, a generator
\* disposed of during the call) gives the slot back once, so the counter is 0 when
\* all calls have settled.
C23_SlotCounter ==
    /\ activeOperations >= 0
    /\ activeOperations <= maxConcurrentOperations
    /\ activeOperations = slotsHeld
    /\ allSettled => activeOperations = 0

\* every slot is taken and one more call waits
C23_Witness ==
    /\ activeOperations = maxConcurrentOperations
    /\ calls[1].pc = "waiting"

\* C24: every compile call that waits for a slot eventually takes one and
\* completes, given that every call holding a slot eventually gives it back: with
\* more than 50 concurrent callers no waiting caller is overtaken for ever.
C24_WaitingCallCompletes ==
    (calls[1].pc = "waiting") ~> (calls[1].pc \in {"resolved", "rejected"})

\* how many times a key is in the access-order list
timesListed(c, key) == Cardinality({ j \in DOMAIN c.accessOrder : c.accessOrder[j] = key })

\* C25: after any sequence of set, get, has, delete, isValid, cleanup and clear on
\* an LRUCache of capacity >= 1, the cache holds at most capacity entries, and the
\* access-order list holds exactly the keys of the stored entries, each once.
C25_CacheBounded ==
    /\ Len(cache.map) <= cache.capacity
    /\ Len(cache.accessOrder) = Len(cache.map)
    /\ \A key \in storedKeys(cache) : timesListed(cache, key) = 1

\* the cache is full
isFull(c) == Len(c.map) >= c.capacity

\* C26: when set inserts a new key into a full cache, exactly one entry is evicted,
\* the one of the stored key whose last successful get or set is the oldest; set
\* on a stored key evicts nothing and makes the key the most recently used, the
\* last of the access-order list.
C26_EvictsLeastRecentlyUsed ==
    [][observed'.op = "set" =>
           IF isStored(cache, observed'.key)
           THEN /\ storedKeys(cache') = storedKeys(cache)
                /\ cache'.accessOrder[Len(cache'.accessOrder)] = observed'.key
           ELSE IF isFull(cache)
           THEN storedKeys(cache') = (storedKeys(cache) \ {Head(recency)}) \cup {observed'.key}
           ELSE storedKeys(cache') = storedKeys(cache) \cup {observed'.key}]_vars

\* the entry stored under a key, and whether it was written more than ttl ago
entryOf(c, key) == c.map[mapPlace(c.map, key)]
writtenLongAgo(c, key, t) == isStored(c, key) /\ t - entryOf(c, key).timestamp > c.ttl

\* C27: the cache never serves an expired entry: for a key whose entry was last
\* written more than ttl before the call, get returns undefined and has and
\* isValid return false, and the call removes the entry from the Map and the key
\* from the access-order list; a value get returns is that of an entry not
\* expired; set on a stored key restarts its time to live.
C27_ExpiredNeverServed ==
    [][now' = now =>
           /\ (observed'.op \in {"get", "has", "isValid"}
                  /\ writtenLongAgo(cache, observed'.key, now))
               => /\ observed'.result \in {"undefined", "false"}
                  /\ ~isStored(cache', observed'.key)
                  /\ timesListed(cache', observed'.key) = 0
           /\ (observed'.op = "get" /\ observed'.result # "undefined")
               => /\ isStored(cache, observed'.key)
                  /\ ~writtenLongAgo(cache, observed'.key, now)
           /\ observed'.op = "set"
               => /\ isStored(cache', observed'.key)
                  /\ entryOf(cache', observed'.key).timestamp = now]_vars

\* what the cache records for the path of compileFile
recorded == entryOf(cache, FilePath).value
holdsUnexpired == isStored(cache, FilePath) /\ ~writtenLongAgo(cache, FilePath, now)
resumesFromStat(c) == fileCalls[c].pc = "statted" /\ fileCalls'[c].pc # "statted"

\* C28: compileFile never writes stale output: a call goes on to write the cached
\* HTML without recompiling only when the cache holds an unexpired entry for the
\* path whose recorded mtime is >= the current mtime of the file, and then it
\* writes the recorded HTML; a call that finds the mtime of the file greater than
\* the recorded one goes on to read the file again, and the compile that follows
\* replaces the entry of the cache; whatever the file modifications and the
\* other compileFile calls in between.
C28_NeverWritesStale ==
    [][\A c \in Callers :
           /\ (resumesFromStat(c) /\ fileCalls'[c].pc = "cached")
               => /\ holdsUnexpired
                  /\ recorded.mtime >= disk.mtime
                  /\ fileCalls'[c].html = recorded.html
           /\ (resumesFromStat(c) /\ holdsUnexpired /\ disk.mtime > recorded.mtime)
               => fileCalls'[c].pc = "reading"
           /\ (fileCalls[c].pc = "compiling" /\ fileCalls'[c].pc = "writing")
               => /\ isStored(cache', FilePath)
                  /\ entryOf(cache', FilePath).value
                         = [html |-> fileCalls'[c].html, mtime |-> fileCalls[c].mtime]]_vars

\* C29: after dispose() on a parser, parse() on that instance fails with the
\* 'Parser has been disposed' error: it never returns a forest, empty or not,
\* for a disposed parser.
C29_DisposedParserThrows == parserDisposed => parserState \in {"disposed", "failed"}

\* a turn of a loop that starts at pos ends further on, or leaves the loop
turnAdvances(t, pos) == t.left # "no" \/ t.pos > pos
MaxIndent == 4
loopsAdvance(s) ==
    \A pos \in 0..(Len(s) - 1), level \in -1..MaxIndent :
        /\ turnAdvances(childrenTurn(s, pos, level), pos)
        /\ turnAdvances(multilineTurn(s, pos, level), pos)

\* parse() is in its loop, about to test it
inLoop == parserState \in {"constructed", "parsing"}

\* C30: parse() terminates on every input the constructor accepts: every turn of
\* the loop that collects the children and of the loop of the multiline text,
\* from any position and at any level, ends at a later read position or leaves
\* the loop; the read position never passes the end of the input, so the turns
\* of parse() are finitely many; and when parse() returns, the read position is
\* the length of the trimmed input.
C30_ParseTerminates ==
    /\ [](parserState = "constructed" => loopsAdvance(input))
    /\ []((inLoop /\ position < Len(input))
             => turnAdvances(childrenTurn(input, position, TopLevel), position))
    /\ [][parserState' = "parsing" => position' > position]_vars
    /\ [](position <= Len(input))
    /\ [](parserState = "parsed" => position = Len(input))
C30_Witness ==
    /\ parserState = "parsed"
    /\ position = Len(input)
    /\ Len(ast) > 1
    /\ \E i \in DOMAIN input : input[i] = "\n"

====
